---- MODULE Spec2Model ----
(***************************************************************************)
(* ccwc: a wc clone.  The model covers the counting engine (a chain of     *)
(* per-concern state machines fed one byte at a time), the driver doCount  *)
(* that pulls bytes from each input stream, and the earlier chain variants *)
(* kept in the source tree.                                                *)
(*                                                                         *)
(* Bytes are the integers 0..255.  A stream is modelled by what it         *)
(* delivers: each pull either returns a byte or end-of-data, and the       *)
(* history variable `pulled` records the bytes delivered so far for the    *)
(* input being processed.  The locale built from the environment is taken  *)
(* to be a UTF-8 locale (see encoding).                                    *)
(***************************************************************************)
EXTENDS Integers, Sequences, FiniteSets, TLC

(***************************************************************************)
(* Bounds of the model.                                                    *)
(***************************************************************************)
\* Total number of bytes delivered by all streams of one run.
MaxLen == 3
\* Number of named inputs on the command line.
MaxInputs == 2
\* Number of bytes fed to the engine in one pass of the engine harness.
MaxFeed == 5
\* Number of calls made on the engine when they come in any order.
MaxCalls == 4
\* Number of bytes in a file whose content is given.
MaxContent == 3
\* Number of arguments on a command line.
MaxArgs == 3

(***************************************************************************)
(* Byte values the streams deliver.                                        *)
(***************************************************************************)
\* NUL, white space, a letter, a continuation byte, a 2-byte leading byte
\* and a byte that can start nothing.
DriverBytes == {0, 9, 10, 13, 32, 65, 159, 195, 248}

\* A letter, one continuation byte (0x9F), leading bytes of well-formed 2-,
\* 3- and 4-byte sequences (0xC3, 0xE2, 0xF0), a leading byte of an overlong
\* 2-byte sequence (0xC0), and a byte that can start nothing (0xF8).
Utf8Bytes == {65, 159, 192, 195, 226, 240, 248}

\* The six white-space bytes of the C locale, their neighbours, and a byte
\* that is white space in other character sets (NBSP in Latin-1).
WordBytes == {8, 9, 10, 11, 12, 13, 14, 32, 33, 160}

\* Bytes every UTF-8 mbrtowc treats alike: NUL, a letter, a continuation
\* byte, leading bytes of 2- and 3-byte sequences.
VariantBytes == {0, 65, 159, 195, 226}

\* A line feed and a letter: what the files named on a command line hold.
FileBytes == {10, 65}

\* NUL, a line feed, a space, a letter, a continuation byte and the leading
\* byte of a 2-byte sequence: the content of the files whose content is
\* given.
StreamBytes == {0, 10, 32, 65, 159, 195}

(***************************************************************************)
(* Counter (counter.hpp): four counts, zero on construction.               *)
(***************************************************************************)
Counter == [bytes |-> 0, words |-> 0, lines |-> 0, multibyte |-> 0]

\* Counter::operator+=
Counter_plus(this, other) ==
    [bytes |-> this.bytes + other.bytes,
     words |-> this.words + other.words,
     lines |-> this.lines + other.lines,
     multibyte |-> this.multibyte + other.multibyte]

(***************************************************************************)
(* std::isspace in the "C" locale (the program never calls setlocale).     *)
(***************************************************************************)
\* Mutant: vertical tab and form feed are not taken for white space.
isspace_blank(b) == b \in {9, 10, 13, 32}

isspace(b) == b \in {9, 10, 11, 12, 13, 32}

(***************************************************************************)
(* detail::LineStateMachine                                                *)
(***************************************************************************)
\* '\n'
LF == 10

\* Mutant: a carriage return ends a line too.
LineStateMachine_updateCounter_cr(counter, byte) ==
    IF byte = LF \/ byte = 13 THEN [counter EXCEPT !.lines = @ + 1] ELSE counter

LineStateMachine_updateCounter(counter, byte) ==
    IF byte = LF THEN [counter EXCEPT !.lines = @ + 1] ELSE counter

(***************************************************************************)
(* detail::WordStateMachine: the pair (counter, m_inWord) after            *)
(* updateCounter.                                                          *)
(***************************************************************************)
\* Mutant: every byte that is not white space counts as a word.
WordStateMachine_updateCounter_everyByte(counter, byte, inWord) ==
    IF isspace(byte)
    THEN [counter |-> counter, m_inWord |-> FALSE]
    ELSE [counter |-> [counter EXCEPT !.words = @ + 1], m_inWord |-> TRUE]

WordStateMachine_updateCounter(counter, byte, inWord) ==
    IF isspace(byte)
    THEN [counter |-> counter, m_inWord |-> FALSE]
    ELSE IF ~inWord
         THEN [counter |-> [counter EXCEPT !.words = @ + 1], m_inWord |-> TRUE]
         ELSE [counter |-> counter, m_inWord |-> inWord]

(***************************************************************************)
(* detail::ByteStateMachine                                                *)
(***************************************************************************)
\* Mutant: the byte state machine passes the counter on without counting.
ByteStateMachine_updateCounter_pass(counter) == counter

\* Mutant: the bytes field is one bit wide and wraps around.
ByteStateMachine_updateCounter_narrow(counter) ==
    [counter EXCEPT !.bytes = (@ + 1) % 2]

ByteStateMachine_updateCounter(counter) ==
    [counter EXCEPT !.bytes = @ + 1]

(***************************************************************************)
(* detail::MultibyteStateMachine (boost.locale variant)                    *)
(***************************************************************************)
MAX_BUFFER_SIZE == 4096
UTF8_MASK_1 == 128
UTF8_MASK_3 == 224
UTF8_MASK_4 == 240
UTF8_MASK_5 == 248
UTF8_CONT_MASK == 192
UTF8_CONT_VALUE == 128

\* byte & mask for a mask made of leading one bits (0x80, 0xC0, 0xE0, 0xF0,
\* 0xF8): the low bits, byte % (256 - mask), are cleared.
BitAnd(byte, mask) == byte - (byte % (256 - mask))

utf8CharLength(firstByte) ==
    IF BitAnd(firstByte, UTF8_MASK_1) = 0 THEN 1
    ELSE IF BitAnd(firstByte, UTF8_MASK_3) = UTF8_CONT_MASK THEN 2
    ELSE IF BitAnd(firstByte, UTF8_MASK_4) = UTF8_MASK_3 THEN 3
    ELSE IF BitAnd(firstByte, UTF8_MASK_5) = UTF8_MASK_4 THEN 4
    ELSE 0

\* (ele & UTF8_CONT_MASK) == UTF8_CONT_VALUE
IsContinuation(ele) == BitAnd(ele, UTF8_CONT_MASK) = UTF8_CONT_VALUE

(***************************************************************************)
(* fullCharsByteCount.  The loop starts at pos = 0 and, while the bytes at *)
(* pos form a full character (a leading byte of length charLen > 0, all    *)
(* charLen bytes inside the buffer, every byte after the first a           *)
(* continuation byte), advances pos by charLen; it returns the first pos   *)
(* where that fails, or the buffer size.  Every byte strictly inside a     *)
(* full character is a continuation byte, where no full character starts,  *)
(* so the positions the loop passes over are exactly those covered by a    *)
(* full character, and its result is the least position that neither       *)
(* starts nor lies inside one.  Positions are 0-based as in the source;     *)
(* buffer[p + 1] is m_buffer[p].                                            *)
(***************************************************************************)
FullCharAt(buffer, pos) ==
    /\ pos < Len(buffer)
    /\ LET charLen == utf8CharLength(buffer[pos + 1])
       IN /\ charLen # 0
          /\ pos + charLen <= Len(buffer)
          /\ \A i \in 1..(charLen - 1) : IsContinuation(buffer[pos + i + 1])

InsideFullChar(buffer, pos) ==
    \E start \in {q \in (pos - 3)..(pos - 1) : q >= 0} :
        /\ FullCharAt(buffer, start)
        /\ pos < start + utf8CharLength(buffer[start + 1])

fullCharsByteCount(buffer) ==
    LET stops == {pos \in 0..Len(buffer) :
                     ~FullCharAt(buffer, pos) /\ ~InsideFullChar(buffer, pos)}
    IN CHOOSE pos \in stops : \A other \in stops : pos <= other

(***************************************************************************)
(* boost::locale::conv::to_utf<wchar_t>(text, encoding), where encoding is *)
(* that of the locale generate("") builds from the environment.  The model *)
(* fixes a UTF-8 environment, so encoding is "UTF-8".  With the default    *)
(* method (skip), every well-formed UTF-8 sequence (Unicode Table 3-7: no  *)
(* overlong form, no surrogate, nothing above U+10FFFF) becomes one        *)
(* wchar_t (32 bits wide), every other byte is skipped and nothing is      *)
(* thrown.  WellFormedAt is 1-based.  The size of the result is the number *)
(* of positions where a well-formed sequence starts.                       *)
(***************************************************************************)
WellFormedAt(text, p) ==
    LET b0 == text[p]
        cont(k) == p + k <= Len(text) /\ IsContinuation(text[p + k])
        second == text[p + 1]
    IN \/ b0 < 128
       \/ b0 \in 194..223 /\ cont(1)
       \/ /\ b0 \in 224..239 /\ cont(1) /\ cont(2)
          /\ b0 = 224 => second >= 160
          /\ b0 = 237 => second <= 159
       \/ /\ b0 \in 240..244 /\ cont(1) /\ cont(2) /\ cont(3)
          /\ b0 = 240 => second >= 144
          /\ b0 = 244 => second <= 143

to_utf_size(text) ==
    Cardinality({p \in 1..Len(text) : WellFormedAt(text, p)})

\* boost::locale::conv::method_type: what to_utf does with ill-formed input.
\* to_utf is called without a method, so the default applies.
default_method == "skip"

\* to_utf throws conversion_error: only under the method stop, when some
\* byte of text belongs to no well-formed sequence.
conversion_error(text, how) ==
    /\ how = "stop"
    /\ \E p \in 1..Len(text) :
          /\ ~WellFormedAt(text, p)
          /\ ~\E q \in {r \in (p - 3)..(p - 1) : r >= 1} :
                 WellFormedAt(text, q) /\ p < q + utf8CharLength(text[q])

\* Mutant: the flush adds the bytes flushed, not the characters converted.
flushBuffer_bytes(counter, buffer) ==
    LET flushBytes == fullCharsByteCount(buffer)
    IN [counter |-> [counter EXCEPT !.multibyte = @ + flushBytes],
        m_buffer |-> SubSeq(buffer, flushBytes + 1, Len(buffer)),
        thrown |-> FALSE]

\* Mutant: to_utf is called with the method stop and its conversion_error
\* is not caught.
flushBuffer_rethrow(counter, buffer) ==
    LET flushBytes == fullCharsByteCount(buffer)
        text == SubSeq(buffer, 1, flushBytes)
    IN IF conversion_error(text, "stop")
       THEN [counter |-> counter, m_buffer |-> buffer, thrown |-> TRUE]
       ELSE [counter |-> [counter EXCEPT !.multibyte = @ + to_utf_size(text)],
             m_buffer |-> SubSeq(buffer, flushBytes + 1, Len(buffer)),
             thrown |-> FALSE]

\* flushBuffer(counter): the counter and m_buffer it leaves, and whether an
\* exception leaves it.  The only exception to_utf raises for a charset the
\* converter knows is conversion_error, which the catch clause absorbs.
flushBuffer(counter, buffer) ==
    IF buffer = <<>>
    THEN [counter |-> counter, m_buffer |-> buffer, thrown |-> FALSE]
    ELSE LET flushBytes == fullCharsByteCount(buffer)
             text == SubSeq(buffer, 1, flushBytes)
         IN IF flushBytes = 0
            THEN [counter |-> counter, m_buffer |-> buffer, thrown |-> FALSE]
            ELSE IF conversion_error(text, default_method)
            THEN [counter |-> [counter EXCEPT !.multibyte = @ + 1],
                  m_buffer |-> <<>>, thrown |-> FALSE]
            ELSE [counter |-> [counter EXCEPT !.multibyte =
                                  @ + to_utf_size(text)],
                  m_buffer |-> SubSeq(buffer, flushBytes + 1, Len(buffer)),
                  thrown |-> FALSE]

\* The counter and m_buffer after MultibyteStateMachine::updateCounter, and
\* whether an exception leaves it.
MultibyteStateMachine_updateCounter(counter, buffer) ==
    IF Len(buffer) >= MAX_BUFFER_SIZE
    THEN flushBuffer(counter, buffer)
    ELSE [counter |-> counter, m_buffer |-> buffer, thrown |-> FALSE]

\* Mutant: the bytes left after the flush are dropped without a count.
MultibyteStateMachine_finalize_drop(counter, buffer) ==
    [counter |-> flushBuffer(counter, buffer).counter, m_buffer |-> <<>>,
     thrown |-> FALSE]

\* Mutant: finalize adds its unit whether or not a byte is left.
MultibyteStateMachine_finalize_always(counter, buffer) ==
    [counter |-> [flushBuffer(counter, buffer).counter
                     EXCEPT !.multibyte = @ + 1],
     m_buffer |-> <<>>, thrown |-> FALSE]

\* The counter and m_buffer after MultibyteStateMachine::finalize, and
\* whether an exception leaves it.
MultibyteStateMachine_finalize(counter, buffer) ==
    LET flushed == flushBuffer(counter, buffer)
    IN IF ~flushed.thrown /\ flushed.m_buffer # <<>>
       THEN [counter |-> [flushed.counter EXCEPT !.multibyte = @ + 1],
             m_buffer |-> <<>>, thrown |-> FALSE]
       ELSE flushed

(***************************************************************************)
(* State.                                                                  *)
(***************************************************************************)
VARIABLES
    variant,        \* which chain of the source tree is built
    alphabet,       \* the byte values the streams of this run deliver
    inputs,         \* Arguments::m_input_data_objects
    idx,            \* position of doCount's range-for in inputs (1-based)
    stdinEof,       \* std::cin has reached end of file
    counter,        \* the Counter being filled
    counters,       \* doCount's result vector
    m_byte,         \* m_byte of the line, word and byte state machines
    m_inWord,       \* WordStateMachine::m_inWord
    m_buffer,       \* MultibyteStateMachine::m_buffer
    m_state,        \* MultibyteStateMachine::m_state (mbrtowc variants)
    m_charComplete, \* MultibyteStateMachine::m_charComplete (mbrtowc variants)
    m_charBytes,    \* MultibyteStateMachine::m_charBytes (mbrtowc variants)
    m_invalid,      \* MultibyteStateMachine::m_invalid (mbrtowc variants)
    pulled,         \* history: bytes nextByte has returned for this input
    history,        \* history: pulled, for each stored record
    finalizeCalls,  \* history: finalize calls since counter was constructed
    finalized,      \* history: finalizeCalls, for each stored record
    phase,          \* harness: "feeding" or "finalized"; driver: "running" or "done"
    argv,           \* main: the arguments parseArguments has not looked at yet
    m_format_options, \* OutputFormatter::m_format_options
    output,         \* main: the lines written to std::cout
    commandLine,    \* history: the arguments main was started with
    exit_code,      \* main: <<>> while it runs, <<value>> once it has returned
    returned,       \* stream harness: <<>>, or <<the last call and its value>>
    chain           \* the state machines of the chain, in the order linked

vars == <<variant, alphabet, inputs, idx, stdinEof, counter, counters, m_byte,
          m_inWord, m_buffer, m_state, m_charComplete, m_charBytes, m_invalid,
          pulled, history, finalizeCalls, finalized, phase, argv,
          m_format_options, output, commandLine, exit_code, returned,
          chain>>

\* What main keeps around doCount.
mainVars ==
    <<argv, m_format_options, output, commandLine, exit_code, returned,
      chain>>

\* buildCounterStateMachineChain: Lines -> Words -> Multibyte -> Bytes.
BuiltChain == <<"Lines", "Words", "Multibyte", "Bytes">>

\* doCount and the engine on their own: no argument is left to parse and
\* nothing has been written.
AfterParse ==
    /\ argv = <<>>
    /\ m_format_options = {}
    /\ output = <<>>
    /\ commandLine = <<>>
    /\ exit_code = <<>>
    /\ returned = <<>>
    /\ chain = BuiltChain

mbrtowcVars == <<m_state, m_charComplete, m_charBytes, m_invalid>>

\* mbstate_t of a UTF-8 locale: bytes still wanted, lower bound of the
\* code point for the sequence length, bits decoded so far.
InitialMbstate == [want |-> 0, lbound |-> 0, ch |-> 0]

\* buildCounterStateMachineChain: every state machine as constructed.
FreshChain ==
    /\ m_byte = [line |-> 0, word |-> 0, byte |-> 0]
    /\ m_inWord = FALSE
    /\ m_buffer = <<>>
    /\ m_state = InitialMbstate
    /\ m_charComplete = FALSE
    /\ m_charBytes = 0
    /\ m_invalid = FALSE

(***************************************************************************)
(* The chain Lines -> Words -> Multibyte -> Bytes of                       *)
(* counter_state_machine.cpp: updateState(byte) followed by                *)
(* updateCounter(counter) on the head.  Every state machine stores or      *)
(* appends the byte and passes it on, then every one applies its count and *)
(* passes the counter on.                                                  *)
(***************************************************************************)
ChainUpdate(byte) ==
    LET afterLine == LineStateMachine_updateCounter(counter, byte)
        afterWord == WordStateMachine_updateCounter(afterLine, byte, m_inWord)
        afterMultibyte == MultibyteStateMachine_updateCounter(
                              afterWord.counter, Append(m_buffer, byte))
    IN /\ m_byte' = [line |-> byte, word |-> byte, byte |-> byte]
       /\ m_inWord' = afterWord.m_inWord
       /\ m_buffer' = afterMultibyte.m_buffer
       /\ counter' = ByteStateMachine_updateCounter(afterMultibyte.counter)
       /\ UNCHANGED mbrtowcVars

\* Mutant: WordStateMachine::reset leaves m_inWord as it is.
ChainReset_keepWord ==
    /\ m_byte' = [line |-> 0, word |-> 0, byte |-> 0]
    /\ m_inWord' = m_inWord
    /\ m_buffer' = <<>>
    /\ UNCHANGED mbrtowcVars

\* reset() on the head: every state machine clears its state.
ChainReset ==
    /\ m_byte' = [line |-> 0, word |-> 0, byte |-> 0]
    /\ m_inWord' = FALSE
    /\ m_buffer' = <<>>
    /\ UNCHANGED mbrtowcVars

\* finalize(counter) on the head: only the multibyte state machine acts.
ChainFinalize ==
    LET done == MultibyteStateMachine_finalize(counter, m_buffer)
    IN /\ counter' = done.counter
       /\ m_buffer' = done.m_buffer
       /\ finalizeCalls' = finalizeCalls + 1
       /\ UNCHANGED <<m_byte, m_inWord, mbrtowcVars>>

(***************************************************************************)
(* parseArguments: one InputDataObject per file name, healthy with a file  *)
(* stream or unhealthy with a standard-input stream in its place           *)
(* (addInputFile); a single healthy standard-input entry when no file was  *)
(* named (addStdin).                                                       *)
(***************************************************************************)
FileInput == [mIsHealthy |-> TRUE, isStdin |-> FALSE]
FailedInput == [mIsHealthy |-> FALSE, isStdin |-> TRUE]
StdinInput == [mIsHealthy |-> TRUE, isStdin |-> TRUE]

InputLists ==
    {<<StdinInput>>} \cup
    UNION {[1..n -> {FileInput, FailedInput}] : n \in 1..MaxInputs}

RECURSIVE TotalLen(_)
TotalLen(seqs) ==
    IF seqs = <<>> THEN 0 ELSE Len(Head(seqs)) + TotalLen(Tail(seqs))

\* Bytes delivered so far in this run.
Delivered == TotalLen(history) + Len(pulled)

(***************************************************************************)
(* doCount (processor.hpp).                                                *)
(***************************************************************************)
InitDriver(bytes) ==
    /\ variant = "cpp"
    /\ alphabet = bytes
    /\ inputs \in InputLists
    /\ idx = 1
    /\ stdinEof = FALSE
    /\ counter = Counter
    /\ counters = <<>>
    /\ FreshChain
    /\ AfterParse
    /\ pulled = <<>>
    /\ history = <<>>
    /\ finalizeCalls = 0
    /\ finalized = <<>>
    /\ phase = "running"

\* After n bytes, nextByte() of the input's stream has a byte to return: a
\* file stream of known size does when it is open and the file has more
\* than n bytes; what standard input holds, and a file no size is known
\* of, is only known as it is read.
HasByteAfter(input, n) ==
    IF "mInputStream" \in DOMAIN input /\ input.mInputStream.kind # "stdin"
    THEN input.mInputStream.is_open /\ n < input.mInputStream.size
    ELSE TRUE

\* After n bytes, nextByte() of the input's stream can return std::nullopt.
AtEndOfData(input, n) ==
    IF "mInputStream" \in DOMAIN input /\ input.mInputStream.kind # "stdin"
    THEN ~input.mInputStream.is_open \/ n = input.mInputStream.size
    ELSE TRUE

\* nextByte() of the current input's stream can return a byte.
CanDeliver ==
    /\ phase = "running"
    /\ idx <= Len(inputs)
    /\ inputs[idx].isStdin => ~stdinEof
    /\ HasByteAfter(inputs[idx], Len(pulled))
    /\ Delivered < MaxLen

\* Mutant: the Counter is not constructed anew for the next input.
AfterLoop_keepCounter(delivered) ==
    /\ ChainReset
    /\ counters' = Append(counters, counter)
    /\ history' = Append(history, delivered)
    /\ finalized' = Append(finalized, finalizeCalls)
    /\ counter' = counter
    /\ pulled' = <<>>
    /\ finalizeCalls' = 0
    /\ idx' = idx + 1
    /\ phase' = IF idx = Len(inputs) THEN "done" ELSE "running"
    /\ UNCHANGED <<mainVars, variant, alphabet, inputs>>

\* Mutant: no record is pushed for an unhealthy input.
AfterLoop_skipUnhealthy(delivered) ==
    /\ ChainReset
    /\ counters' = IF inputs[idx].mIsHealthy
                   THEN Append(counters, counter) ELSE counters
    /\ history' = Append(history, delivered)
    /\ finalized' = Append(finalized, finalizeCalls)
    /\ counter' = Counter
    /\ pulled' = <<>>
    /\ finalizeCalls' = 0
    /\ idx' = idx + 1
    /\ phase' = IF idx = Len(inputs) THEN "done" ELSE "running"
    /\ UNCHANGED <<mainVars, variant, alphabet, inputs>>

\* After the while loop: stateMachine->reset(); counters.push_back(counter);
\* and the range-for moves to the next input (a fresh Counter).
AfterLoop(delivered) ==
    /\ ChainReset
    /\ counters' = Append(counters, counter)
    /\ history' = Append(history, delivered)
    /\ finalized' = Append(finalized, finalizeCalls)
    /\ counter' = Counter
    /\ pulled' = <<>>
    /\ finalizeCalls' = 0
    /\ idx' = idx + 1
    /\ phase' = IF idx = Len(inputs) THEN "done" ELSE "running"
    /\ UNCHANGED <<mainVars, variant, alphabet, inputs>>

\* One iteration of the while loop: nextByte() returns a byte, the input is
\* healthy, the byte goes through updateState and updateCounter.
LoopIteration(byte) ==
    /\ CanDeliver
    /\ inputs[idx].mIsHealthy
    /\ ChainUpdate(byte)
    /\ pulled' = Append(pulled, byte)
    /\ UNCHANGED <<mainVars, variant, alphabet, inputs, idx, stdinEof, counters, history,
                   finalizeCalls, finalized, phase>>

\* nextByte() returns a byte, the input is not healthy: break.
LoopBreakUnhealthy(byte) ==
    /\ CanDeliver
    /\ ~inputs[idx].mIsHealthy
    /\ AfterLoop(Append(pulled, byte))
    /\ UNCHANGED stdinEof

\* nextByte() returns std::nullopt: the loop ends.
LoopEndOfData ==
    /\ phase = "running"
    /\ idx <= Len(inputs)
    /\ AtEndOfData(inputs[idx], Len(pulled))
    /\ AfterLoop(pulled)
    /\ stdinEof' = (stdinEof \/ inputs[idx].isStdin)

Next ==
    \/ \E byte \in alphabet : LoopIteration(byte)
    \/ \E byte \in alphabet : LoopBreakUnhealthy(byte)
    \/ LoopEndOfData

Init == InitDriver(DriverBytes)

Spec == Init /\ [][Next]_vars

\* The same driver over the white-space bytes.
InitWords == InitDriver(WordBytes)

SpecWords == InitWords /\ [][Next]_vars

(***************************************************************************)
(* Engine harness: one pass over the chain of counter_state_machine.cpp    *)
(* through its public operations, as a caller that uses all four would:    *)
(* updateState and updateCounter per byte, finalize at the end of the      *)
(* bytes, then reset, and the record is kept.                              *)
(***************************************************************************)
InitEngine ==
    /\ variant = "cpp"
    /\ alphabet = Utf8Bytes
    /\ inputs = <<>>
    /\ idx = 1
    /\ stdinEof = FALSE
    /\ counter = Counter
    /\ counters = <<>>
    /\ FreshChain
    /\ AfterParse
    /\ pulled = <<>>
    /\ history = <<>>
    /\ finalizeCalls = 0
    /\ finalized = <<>>
    /\ phase = "feeding"

Feed(byte) ==
    /\ phase = "feeding"
    /\ Len(pulled) < MaxFeed
    /\ ChainUpdate(byte)
    /\ pulled' = Append(pulled, byte)
    /\ UNCHANGED <<mainVars, variant, alphabet, inputs, idx, stdinEof, counters, history,
                   finalizeCalls, finalized, phase>>

Finalize ==
    /\ phase = "feeding"
    /\ ChainFinalize
    /\ phase' = "finalized"
    /\ UNCHANGED <<mainVars, variant, alphabet, inputs, idx, stdinEof, counters, pulled,
                   history, finalized>>

Reset ==
    /\ phase = "finalized"
    /\ ChainReset
    /\ counters' = Append(counters, counter)
    /\ history' = Append(history, pulled)
    /\ finalized' = Append(finalized, finalizeCalls)
    /\ phase' = "done"
    /\ UNCHANGED <<mainVars, variant, alphabet, inputs, idx, stdinEof, counter, pulled,
                   finalizeCalls>>

NextEngine ==
    \/ \E byte \in alphabet : Feed(byte)
    \/ Finalize
    \/ Reset

SpecEngine == InitEngine /\ [][NextEngine]_vars

(***************************************************************************)
(* The chain linked in any order.  updateState(byte) on the head sets the  *)
(* state of each state machine and passes the byte to the next one;        *)
(* updateCounter(counter) on the head lets each state machine count from   *)
(* its own state and passes the counter on.  An engine is the counter      *)
(* with the state of the four state machines.                              *)
(***************************************************************************)
Machines == {"Lines", "Words", "Multibyte", "Bytes"}

\* Every order of linking the four state machines.
Chains ==
    {links \in [1..4 -> Machines] :
        \A machine \in Machines : \E i \in 1..4 : links[i] = machine}

\* updateState of one state machine, without the call of the next.
MachineUpdateState(machine, engine, byte) ==
    CASE machine = "Lines" -> [engine EXCEPT !.m_byte.line = byte]
      [] machine = "Words" -> [engine EXCEPT !.m_byte.word = byte]
      [] machine = "Bytes" -> [engine EXCEPT !.m_byte.byte = byte]
      [] machine = "Multibyte" ->
             [engine EXCEPT !.m_buffer = Append(@, byte)]

\* updateCounter of one state machine, without the call of the next.
MachineUpdateCounter(machine, engine) ==
    CASE machine = "Lines" ->
             [engine EXCEPT !.counter = LineStateMachine_updateCounter(
                                            @, engine.m_byte.line)]
      [] machine = "Words" ->
             LET after == WordStateMachine_updateCounter(
                              engine.counter, engine.m_byte.word,
                              engine.m_inWord)
             IN [engine EXCEPT !.counter = after.counter,
                               !.m_inWord = after.m_inWord]
      [] machine = "Bytes" ->
             [engine EXCEPT !.counter = ByteStateMachine_updateCounter(@)]
      [] machine = "Multibyte" ->
             LET after == MultibyteStateMachine_updateCounter(
                              engine.counter, engine.m_buffer)
             IN [engine EXCEPT !.counter = after.counter,
                               !.m_buffer = after.m_buffer]

\* passToNextState down a chain of four.
PassToNextState(links, engine, byte) ==
    LET first == MachineUpdateState(links[1], engine, byte)
        second == MachineUpdateState(links[2], first, byte)
        third == MachineUpdateState(links[3], second, byte)
    IN MachineUpdateState(links[4], third, byte)

\* Mutant: the byte state machine does not call passToNextCounter.
PassToNextCounter_bytesLast(links, engine) ==
    LET first == MachineUpdateCounter(links[1], engine)
        second == IF links[1] = "Bytes" THEN first
                  ELSE MachineUpdateCounter(links[2], first)
        third == IF "Bytes" \in {links[1], links[2]} THEN second
                 ELSE MachineUpdateCounter(links[3], second)
    IN IF "Bytes" \in {links[1], links[2], links[3]} THEN third
       ELSE MachineUpdateCounter(links[4], third)

\* passToNextCounter down a chain of four.
PassToNextCounter(links, engine) ==
    LET first == MachineUpdateCounter(links[1], engine)
        second == MachineUpdateCounter(links[2], first)
        third == MachineUpdateCounter(links[3], second)
    IN MachineUpdateCounter(links[4], third)

\* A line feed, a space, a letter and the leading byte of a 2-byte sequence.
ChainBytes == {10, 32, 65, 195}

InitChains ==
    /\ variant = "cpp"
    /\ alphabet = ChainBytes
    /\ inputs = <<>>
    /\ idx = 1
    /\ stdinEof = FALSE
    /\ counter = Counter
    /\ counters = <<>>
    /\ FreshChain
    /\ argv = <<>>
    /\ m_format_options = {}
    /\ output = <<>>
    /\ commandLine = <<>>
    /\ exit_code = <<>>
    /\ returned = <<>>
    /\ chain \in Chains
    /\ pulled = <<>>
    /\ history = <<>>
    /\ finalizeCalls = 0
    /\ finalized = <<>>
    /\ phase = "feeding"

\* stateMachine->updateState(byte); stateMachine->updateCounter(counter);
FeedChain(byte) ==
    /\ phase = "feeding"
    /\ Len(pulled) < MaxFeed
    /\ LET engine == [counter |-> counter, m_byte |-> m_byte,
                      m_inWord |-> m_inWord, m_buffer |-> m_buffer]
           after == PassToNextCounter(
                        chain, PassToNextState(chain, engine, byte))
       IN /\ counter' = after.counter
          /\ m_byte' = after.m_byte
          /\ m_inWord' = after.m_inWord
          /\ m_buffer' = after.m_buffer
    /\ pulled' = Append(pulled, byte)
    /\ UNCHANGED <<mainVars, mbrtowcVars, variant, alphabet, inputs, idx,
                   stdinEof, counters, history, finalizeCalls, finalized,
                   phase>>

NextChains ==
    \/ \E byte \in alphabet : FeedChain(byte)
    \/ Finalize
    \/ Reset

SpecChains == InitChains /\ [][NextChains]_vars

(***************************************************************************)
(* The engine harness around the flush threshold.  The pass has already    *)
(* taken almost MAX_BUFFER_SIZE bytes: a first byte, then the letter A.    *)
(* Below the threshold updateCounter leaves m_buffer alone, so m_buffer    *)
(* holds all of them and nothing has been added to multibyte; they are one *)
(* word and no line.  The bytes that follow come from BufferBytes.         *)
(***************************************************************************)
\* Two continuation bytes and the leading byte of a 3-byte sequence:
\* E0 A0 80 is U+0800, E0 80 80 an overlong form.
BufferBytes == {128, 160, 224}

\* The first byte of the pass: a letter or a continuation byte.
FirstBytes == {65, 128}

Filler(first, length) == [i \in 1..length |-> IF i = 1 THEN first ELSE 65]

\* The bytes the pass has taken: the next byte brings m_buffer to the
\* threshold, or, after letters only, the one that follows it.
Fillers ==
    {Filler(first, MAX_BUFFER_SIZE - 1) : first \in FirstBytes}
    \cup {Filler(65, MAX_BUFFER_SIZE - 2)}

InitBuffer ==
    /\ variant = "cpp"
    /\ alphabet = BufferBytes
    /\ inputs = <<>>
    /\ idx = 1
    /\ stdinEof = FALSE
    /\ \E filler \in Fillers :
          /\ m_buffer = filler
          /\ pulled = filler
          /\ counter = [bytes |-> Len(filler), words |-> 1, lines |-> 0,
                        multibyte |-> 0]
    /\ counters = <<>>
    /\ m_byte = [line |-> 65, word |-> 65, byte |-> 65]
    /\ m_inWord = TRUE
    /\ m_state = InitialMbstate
    /\ m_charComplete = FALSE
    /\ m_charBytes = 0
    /\ m_invalid = FALSE
    /\ AfterParse
    /\ history = <<>>
    /\ finalizeCalls = 0
    /\ finalized = <<>>
    /\ phase = "feeding"

FeedAfterFiller(byte) ==
    /\ phase = "feeding"
    /\ Len(pulled) < MAX_BUFFER_SIZE - 1 + MaxFeed
    /\ ChainUpdate(byte)
    /\ pulled' = Append(pulled, byte)
    /\ UNCHANGED <<mainVars, variant, alphabet, inputs, idx, stdinEof,
                   counters, history, finalizeCalls, finalized, phase>>

NextBuffer ==
    \/ \E byte \in alphabet : FeedAfterFiller(byte)
    \/ Finalize
    \/ Reset

SpecBuffer == InitBuffer /\ [][NextBuffer]_vars

(***************************************************************************)
(* The public operations of the chain of counter_state_machine.cpp called  *)
(* in any order: updateState and updateCounter for a byte, finalize,       *)
(* reset.  A caller keeps the record at each reset and goes on with a new  *)
(* one.  An exception that leaves an operation ends the run (phase         *)
(* "fatal").                                                               *)
(***************************************************************************)
RECURSIVE SumOf(_)
SumOf(numbers) ==
    IF numbers = <<>> THEN 0 ELSE Head(numbers) + SumOf(Tail(numbers))

\* Calls made so far: one per byte, per finalize and per reset.
Calls == Delivered + SumOf(finalized) + finalizeCalls + Len(counters)

\* An exception leaves updateCounter for this byte.
ChainUpdateThrows(byte) ==
    MultibyteStateMachine_updateCounter(counter, Append(m_buffer, byte)).thrown

\* An exception leaves finalize.
ChainFinalizeThrows ==
    MultibyteStateMachine_finalize(counter, m_buffer).thrown

InitCalls ==
    /\ variant = "cpp"
    /\ alphabet = Utf8Bytes
    /\ inputs = <<>>
    /\ idx = 1
    /\ stdinEof = FALSE
    /\ counter = Counter
    /\ counters = <<>>
    /\ FreshChain
    /\ AfterParse
    /\ pulled = <<>>
    /\ history = <<>>
    /\ finalizeCalls = 0
    /\ finalized = <<>>
    /\ phase = "calls"

CallUpdate(byte) ==
    /\ phase = "calls"
    /\ Calls < MaxCalls
    /\ ChainUpdate(byte)
    /\ pulled' = Append(pulled, byte)
    /\ phase' = IF ChainUpdateThrows(byte) THEN "fatal" ELSE "calls"
    /\ UNCHANGED <<mainVars, variant, alphabet, inputs, idx, stdinEof, counters, history,
                   finalizeCalls, finalized>>

CallFinalize ==
    /\ phase = "calls"
    /\ Calls < MaxCalls
    /\ ChainFinalize
    /\ phase' = IF ChainFinalizeThrows THEN "fatal" ELSE "calls"
    /\ UNCHANGED <<mainVars, variant, alphabet, inputs, idx, stdinEof, counters, pulled,
                   history, finalized>>

CallReset ==
    /\ phase = "calls"
    /\ Calls < MaxCalls
    /\ ChainReset
    /\ counters' = Append(counters, counter)
    /\ history' = Append(history, pulled)
    /\ finalized' = Append(finalized, finalizeCalls)
    /\ counter' = Counter
    /\ pulled' = <<>>
    /\ finalizeCalls' = 0
    /\ UNCHANGED <<mainVars, variant, alphabet, inputs, idx, stdinEof, phase>>

NextCalls ==
    \/ \E byte \in alphabet : CallUpdate(byte)
    \/ CallFinalize
    \/ CallReset

SpecCalls == InitCalls /\ [][NextCalls]_vars

(***************************************************************************)
(* The file streams of universal_input_stream.cpp.  A stream is a record:  *)
(* the bytes of the file (content), the read position (m_pos; for the      *)
(* ifstream, its get position) and, for the ifstream, whether it is open   *)
(* and its failbit.  nextByte gives the result, a byte or nullopt, and the *)
(* stream as the call leaves it.                                           *)
(***************************************************************************)
\* std::optional<unsigned char>
nullopt == [has_value |-> FALSE]
optional(byte) == [has_value |-> TRUE, value |-> byte]

\* The byte of a file as the char both streams read it into (char is
\* signed here; with an unsigned char the two conversions are identities).
ToChar(b) == IF b >= 128 THEN b - 256 ELSE b

\* static_cast<unsigned char>(char)
ToUnsignedChar(c) == (c + 256) % 256

\* BufferedFileInputStream(filename): std::ifstream(m_name, std::ios::binary);
\* a file that cannot be opened leaves the stream closed with failbit set.
BufferedFileInputStream(content, openable) ==
    [kind |-> "buffered", content |-> content, m_pos |-> 0,
     is_open |-> openable, failbit |-> ~openable]

\* MemoryMappedFileInputStream(filename), the mapping open.
MemoryMappedFileInputStream(content) ==
    [kind |-> "mapped", content |-> content, m_pos |-> 0]

\* m_stream.get(nextByte): fails, setting failbit, on a stream that has
\* failed or has no character left.
BufferedFileInputStream_nextByte(stream) ==
    IF ~stream.failbit /\ stream.m_pos < Len(stream.content)
    THEN [result |-> optional(ToUnsignedChar(ToChar(
                         stream.content[stream.m_pos + 1]))),
          stream |-> [stream EXCEPT !.m_pos = @ + 1]]
    ELSE [result |-> nullopt, stream |-> [stream EXCEPT !.failbit = TRUE]]

\* Mutant: the last byte of the mapping is not delivered.
MemoryMappedFileInputStream_nextByte_short(stream) ==
    IF stream.m_pos + 1 >= Len(stream.content)
    THEN [result |-> nullopt, stream |-> stream]
    ELSE [result |-> optional(ToUnsignedChar(ToChar(
                         stream.content[stream.m_pos + 1]))),
          stream |-> [stream EXCEPT !.m_pos = @ + 1]]

MemoryMappedFileInputStream_nextByte(stream) ==
    IF stream.m_pos >= Len(stream.content)
    THEN [result |-> nullopt, stream |-> stream]
    ELSE [result |-> optional(ToUnsignedChar(ToChar(
                         stream.content[stream.m_pos + 1]))),
          stream |-> [stream EXCEPT !.m_pos = @ + 1]]

\* mInputStream->nextByte()
nextByte(stream) ==
    IF stream.kind = "buffered"
    THEN BufferedFileInputStream_nextByte(stream)
    ELSE MemoryMappedFileInputStream_nextByte(stream)

(***************************************************************************)
(* Passes over files whose content is given: every stream is pulled to     *)
(* end of data through the chain, as doCount does; the caller may run      *)
(* finalize before it resets the chain and keeps the record (doCount does  *)
(* not).  The runs are the same content read through both file streams,    *)
(* and two pieces followed by the whole they make.                         *)
(***************************************************************************)
Contents(n) == UNION {[1..k -> StreamBytes] : k \in 0..n}

\* The InputDataObject addInputFile stores for a file it could open.
HealthyFile(stream) ==
    [mIsHealthy |-> TRUE, isStdin |-> FALSE, mInputStream |-> stream]

\* An empty file cannot be mapped.
SameContentRuns ==
    {<<HealthyFile(BufferedFileInputStream(content, TRUE)),
       HealthyFile(MemoryMappedFileInputStream(content))>> :
        content \in Contents(MaxContent) \ {<<>>}}

SplitRuns ==
    {<<HealthyFile(BufferedFileInputStream(pieces[1], TRUE)),
       HealthyFile(BufferedFileInputStream(pieces[2], TRUE)),
       HealthyFile(BufferedFileInputStream(pieces[1] \o pieces[2], TRUE))>> :
        pieces \in {pair \in Contents(MaxContent) \X Contents(MaxContent) :
                       Len(pair[1]) + Len(pair[2]) <= MaxContent}}

InitStreams ==
    /\ variant = "cpp"
    /\ alphabet = StreamBytes
    /\ inputs \in SameContentRuns \cup SplitRuns
    /\ idx = 1
    /\ stdinEof = FALSE
    /\ counter = Counter
    /\ counters = <<>>
    /\ FreshChain
    /\ AfterParse
    /\ pulled = <<>>
    /\ history = <<>>
    /\ finalizeCalls = 0
    /\ finalized = <<>>
    /\ phase = "pulling"

\* Mutant: the condition of the loop tests the byte, not the optional.
LoopCondition_value(byte) == byte.has_value /\ byte.value # 0

\* while (auto byte = ...nextByte()): the declaration as a condition is
\* the optional converted to bool, which is has_value().
LoopCondition(byte) == byte.has_value

\* nextByte() returns a byte: updateState and updateCounter.
PullByte ==
    /\ phase = "pulling"
    /\ LET next == nextByte(inputs[idx].mInputStream)
       IN /\ LoopCondition(next.result)
          /\ next.result.has_value
          /\ inputs[idx].mIsHealthy
          /\ ChainUpdate(next.result.value)
          /\ pulled' = Append(pulled, next.result.value)
          /\ inputs' = [inputs EXCEPT ![idx].mInputStream = next.stream]
    /\ UNCHANGED <<mainVars, variant, alphabet, idx, stdinEof, counters, history,
                   finalizeCalls, finalized, phase>>

\* The condition of the loop is false, or the optional is empty: the loop
\* ends.
PullEndOfData ==
    /\ phase = "pulling"
    /\ LET next == nextByte(inputs[idx].mInputStream)
       IN /\ ~LoopCondition(next.result) \/ ~next.result.has_value
          /\ inputs' = [inputs EXCEPT ![idx].mInputStream = next.stream]
    /\ phase' = "drained"
    /\ UNCHANGED <<mainVars, variant, alphabet, idx, stdinEof, counter, counters, m_byte,
                   m_inWord, m_buffer, mbrtowcVars, pulled, history,
                   finalizeCalls, finalized>>

PassFinalize ==
    /\ phase = "drained"
    /\ ChainFinalize
    /\ phase' = "finalized"
    /\ UNCHANGED <<mainVars, variant, alphabet, inputs, idx, stdinEof, counters, pulled,
                   history, finalized>>

\* stateMachine->reset(); counters.push_back(counter); next input.
PassStore ==
    /\ phase \in {"drained", "finalized"}
    /\ ChainReset
    /\ counters' = Append(counters, counter)
    /\ history' = Append(history, pulled)
    /\ finalized' = Append(finalized, finalizeCalls)
    /\ counter' = Counter
    /\ pulled' = <<>>
    /\ finalizeCalls' = 0
    /\ idx' = idx + 1
    /\ phase' = IF idx = Len(inputs) THEN "done" ELSE "pulling"
    /\ UNCHANGED <<mainVars, variant, alphabet, inputs, stdinEof>>

NextStreams ==
    \/ PullByte
    \/ PullEndOfData
    \/ PassFinalize
    \/ PassStore

SpecStreams == InitStreams /\ [][NextStreams]_vars

(***************************************************************************)
(* createInputStream (universal_input_stream.cpp).  A file named on the    *)
(* command line is described by what the calls made on it answer: whether  *)
(* std::filesystem::file_size finds it (exists) and the size it reports,   *)
(* whether std::ifstream can open it (readable), whether                   *)
(* mapped_file_source can map it (mappable).                               *)
(***************************************************************************)
MAX_MEMORY_MAPPED_FILE_SIZE == 104857600

\* Sizes around the threshold, an empty file and a one-byte file.
FileSizes ==
    {0, 1, MAX_MEMORY_MAPPED_FILE_SIZE - 1, MAX_MEMORY_MAPPED_FILE_SIZE,
     MAX_MEMORY_MAPPED_FILE_SIZE + 1}

Files ==
    {[name |-> "missing", exists |-> FALSE, readable |-> FALSE,
      mappable |-> FALSE, size |-> 0],
     [name |-> "unreadable", exists |-> TRUE, readable |-> FALSE,
      mappable |-> FALSE, size |-> 1],
     [name |-> "unmappable", exists |-> TRUE, readable |-> TRUE,
      mappable |-> FALSE, size |-> MAX_MEMORY_MAPPED_FILE_SIZE]}
    \cup {[name |-> "file", exists |-> TRUE, readable |-> TRUE,
           mappable |-> size > 0, size |-> size] : size \in FileSizes}

\* createInputStream(): the stream over std::cin.
StandardInputStream == [kind |-> "stdin", name |-> "<stdin>", is_open |-> TRUE]

\* Mutant: a file of exactly the threshold size is read through the
\* buffered stream.
createInputStream_inclusive(file) ==
    IF ~file.exists
    THEN [thrown |-> "FileOperationException", what |-> "cannot get file size"]
    ELSE IF file.size <= MAX_MEMORY_MAPPED_FILE_SIZE
    THEN [thrown |-> "none",
          stream |-> [kind |-> "buffered", name |-> file.name,
                      is_open |-> file.readable, size |-> file.size]]
    ELSE IF ~file.mappable
    THEN [thrown |-> "runtime_error", what |-> "Failed to memory-map file"]
    ELSE [thrown |-> "none",
          stream |-> [kind |-> "mapped", name |-> file.name,
                      is_open |-> TRUE, size |-> file.size]]

\* createInputStream(filename): the stream made, or the exception thrown.
createInputStream(file) ==
    IF ~file.exists
    THEN [thrown |-> "FileOperationException", what |-> "cannot get file size"]
    ELSE IF file.size < MAX_MEMORY_MAPPED_FILE_SIZE
    THEN [thrown |-> "none",
          stream |-> [kind |-> "buffered", name |-> file.name,
                      is_open |-> file.readable, size |-> file.size]]
    ELSE IF ~file.mappable
    THEN [thrown |-> "runtime_error", what |-> "Failed to memory-map file"]
    ELSE [thrown |-> "none",
          stream |-> [kind |-> "mapped", name |-> file.name,
                      is_open |-> TRUE, size |-> file.size]]

(***************************************************************************)
(* Stream harness: nextByte and reset called in any order on one stream,   *)
(* a buffered stream (over a file that could be opened or not), a mapped   *)
(* stream, or the standard input.  `pulled` holds the bytes returned since *)
(* the stream was last at its beginning, `history` the bytes of the pass   *)
(* that the last successful reset ended.                                   *)
(***************************************************************************)
\* BufferedFileInputStream::reset: clear() and seekg(0) on an open file.
BufferedFileInputStream_reset(stream) ==
    IF ~stream.is_open
    THEN [result |-> FALSE, stream |-> stream]
    ELSE [result |-> TRUE,
          stream |-> [stream EXCEPT !.failbit = FALSE, !.m_pos = 0]]

\* Mutant: the cursor is left where it is.
MemoryMappedFileInputStream_reset_keep(stream) ==
    [result |-> TRUE, stream |-> stream]

MemoryMappedFileInputStream_reset(stream) ==
    [result |-> TRUE, stream |-> [stream EXCEPT !.m_pos = 0]]

\* stdin cannot rewind.
StandardInputStream_reset(stream) ==
    [result |-> FALSE, stream |-> stream]

\* mInputStream->reset()
reset(stream) ==
    CASE stream.kind = "buffered" -> BufferedFileInputStream_reset(stream)
      [] stream.kind = "mapped" -> MemoryMappedFileInputStream_reset(stream)
      [] stream.kind = "stdin" -> StandardInputStream_reset(stream)

HarnessStreams ==
    {BufferedFileInputStream(content, openable) :
        content \in Contents(MaxContent), openable \in BOOLEAN}
    \cup {MemoryMappedFileInputStream(content) :
        content \in Contents(MaxContent) \ {<<>>}}
    \cup {StandardInputStream}

InitHarness ==
    /\ variant = "cpp"
    /\ alphabet = StreamBytes
    /\ inputs \in {<<[mIsHealthy |-> TRUE, isStdin |-> stream.kind = "stdin",
                      mInputStream |-> stream]>> : stream \in HarnessStreams}
    /\ idx = 1
    /\ stdinEof = FALSE
    /\ counter = Counter
    /\ counters = <<>>
    /\ FreshChain
    /\ AfterParse
    /\ pulled = <<>>
    /\ history = <<>>
    /\ finalizeCalls = 0
    /\ finalized = <<>>
    /\ phase = "harness"

harnessFrame ==
    <<variant, alphabet, idx, counter, counters, m_byte, m_inWord, m_buffer,
      mbrtowcVars, finalizeCalls, finalized, phase, argv,
      m_format_options, output, commandLine, exit_code, chain>>

\* nextByte() on a file stream.
CallNextByte ==
    /\ phase = "harness"
    /\ inputs[1].mInputStream.kind # "stdin"
    /\ LET next == nextByte(inputs[1].mInputStream)
       IN /\ inputs' = [inputs EXCEPT ![1].mInputStream = next.stream]
          /\ pulled' = IF next.result.has_value
                       THEN Append(pulled, next.result.value)
                       ELSE pulled
          /\ returned' = <<[call |-> "nextByte", value |-> next.result]>>
    /\ UNCHANGED <<harnessFrame, stdinEof, history>>

\* StandardInputStream::nextByte, std::cin.get() gives a byte.
CallNextByteStdin(byte) ==
    /\ phase = "harness"
    /\ inputs[1].mInputStream.kind = "stdin"
    /\ ~stdinEof
    /\ Len(pulled) < MaxLen
    /\ pulled' = Append(pulled, byte)
    /\ returned' = <<[call |-> "nextByte", value |-> optional(byte)]>>
    /\ UNCHANGED <<harnessFrame, inputs, stdinEof, history>>

\* StandardInputStream::nextByte, std::cin.get() gives EOF.
CallNextByteStdinEof ==
    /\ phase = "harness"
    /\ inputs[1].mInputStream.kind = "stdin"
    /\ stdinEof' = TRUE
    /\ returned' = <<[call |-> "nextByte", value |-> nullopt]>>
    /\ UNCHANGED <<harnessFrame, inputs, pulled, history>>

\* reset() on any stream.
CallStreamReset ==
    /\ phase = "harness"
    /\ LET done == reset(inputs[1].mInputStream)
       IN /\ inputs' = [inputs EXCEPT ![1].mInputStream = done.stream]
          /\ pulled' = IF done.result THEN <<>> ELSE pulled
          /\ history' = IF done.result THEN <<pulled>> ELSE history
          /\ returned' = <<[call |-> "reset", value |-> done.result]>>
    /\ UNCHANGED <<harnessFrame, stdinEof>>

NextHarness ==
    \/ CallNextByte
    \/ \E byte \in alphabet : CallNextByteStdin(byte)
    \/ CallNextByteStdinEof
    \/ CallStreamReset

SpecHarness == InitHarness /\ [][NextHarness]_vars

(***************************************************************************)
(* OutputFormatter::formatFile.  The text is modelled line by line: a      *)
(* count line holds its columns (the padding and the number of each        *)
(* enabled option, in the order of the handler chain) and the name that    *)
(* follows them, an error line holds the message, the total line holds     *)
(* its columns.                                                            *)
(***************************************************************************)
RECURSIVE TotalOf(_)
TotalOf(records) ==
    IF records = <<>> THEN Counter
    ELSE Counter_plus(TotalOf(SubSeq(records, 1, Len(records) - 1)),
                      records[Len(records)])

\* std::to_string(n).length()
RECURSIVE Digits(_)
Digits(n) == IF n < 10 THEN 1 ELSE 1 + Digits(n \div 10)

\* Mutant: the handler of the bytes is linked first.
FormatChain_bytesFirst ==
    <<"FORMAT_BYTES", "FORMAT_LINES", "FORMAT_WORDS", "FORMAT_MULTIBYTE">>

\* buildFormatChain: lines -> words -> multibyte -> bytes.
FormatChain ==
    <<"FORMAT_LINES", "FORMAT_WORDS", "FORMAT_MULTIBYTE", "FORMAT_BYTES">>

\* handle(counter) of the handler of an option.
handle(option, record) ==
    CASE option = "FORMAT_LINES" -> record.lines
      [] option = "FORMAT_WORDS" -> record.words
      [] option = "FORMAT_MULTIBYTE" -> record.multibyte
      [] option = "FORMAT_BYTES" -> record.bytes

\* doHandle down the chain: each enabled handler appends its padding and
\* its number.  `spaces` is 1 + (m_max_len_of_num + 1) - length as an
\* integer; total_spaces_to_add, a std::size_t, is that value when it is
\* not negative and wraps round otherwise.
doHandle(record, maxLenOfNum, options) ==
    LET IsOptionEnabled(option) == option \in options
        enabled == SelectSeq(FormatChain, IsOptionEnabled)
    IN [k \in 1..Len(enabled) |->
           [option |-> enabled[k],
            number |-> handle(enabled[k], record),
            spaces |-> 1 + (maxLenOfNum + 1)
                         - Digits(handle(enabled[k], record))]]

\* Mutant: the name follows every count line.
formatFile_nameAlways(records, inputDataObjects, options) ==
    LET totalCounter == TotalOf(records)
        maxSpaces == Digits(totalCounter.bytes)
        bad == {i \in 1..Len(records) : ~inputDataObjects[i].mIsHealthy}
        firstBad == CHOOSE i \in bad : \A other \in bad : i <= other
        shown == IF bad = {} THEN Len(records) ELSE firstBad - 1
        countLines ==
            [i \in 1..shown |->
                [kind |-> "counts",
                 columns |-> doHandle(records[i], maxSpaces, options),
                 name |-> <<inputDataObjects[i].mInputStream.name>>]]
    IN IF bad # {}
       THEN countLines \o
            <<[kind |-> "error",
               text |-> inputDataObjects[firstBad].mErrorMessage]>>
       ELSE IF Len(inputDataObjects) > 1
       THEN countLines \o
            <<[kind |-> "total",
               columns |-> doHandle(totalCounter, maxSpaces, options)]>>
       ELSE countLines

\* Mutant: the width comes from the bytes of the first record.
formatFile_widthOfFirst(records, inputDataObjects, options) ==
    LET totalCounter == TotalOf(records)
        maxSpaces == Digits(records[1].bytes)
        bad == {i \in 1..Len(records) : ~inputDataObjects[i].mIsHealthy}
        firstBad == CHOOSE i \in bad : \A other \in bad : i <= other
        shown == IF bad = {} THEN Len(records) ELSE firstBad - 1
        countLines ==
            [i \in 1..shown |->
                [kind |-> "counts",
                 columns |-> doHandle(records[i], maxSpaces, options),
                 name |-> IF inputDataObjects[i].mInputStream.kind = "stdin"
                          THEN <<>>
                          ELSE <<inputDataObjects[i].mInputStream.name>>]]
    IN IF bad # {}
       THEN countLines \o
            <<[kind |-> "error",
               text |-> inputDataObjects[firstBad].mErrorMessage]>>
       ELSE IF Len(inputDataObjects) > 1
       THEN countLines \o
            <<[kind |-> "total",
               columns |-> doHandle(totalCounter, maxSpaces, options)]>>
       ELSE countLines

formatFile(records, inputDataObjects, options) ==
    LET totalCounter == TotalOf(records)
        maxSpaces == Digits(totalCounter.bytes)
        bad == {i \in 1..Len(records) : ~inputDataObjects[i].mIsHealthy}
        firstBad == CHOOSE i \in bad : \A other \in bad : i <= other
        shown == IF bad = {} THEN Len(records) ELSE firstBad - 1
        countLines ==
            [i \in 1..shown |->
                [kind |-> "counts",
                 columns |-> doHandle(records[i], maxSpaces, options),
                 name |-> IF inputDataObjects[i].mInputStream.kind = "stdin"
                          THEN <<>>
                          ELSE <<inputDataObjects[i].mInputStream.name>>]]
    IN IF bad # {}
       THEN countLines \o
            <<[kind |-> "error",
               text |-> inputDataObjects[firstBad].mErrorMessage]>>
       ELSE IF Len(inputDataObjects) > 1
       THEN countLines \o
            <<[kind |-> "total",
               columns |-> doHandle(totalCounter, maxSpaces, options)]>>
       ELSE countLines

(***************************************************************************)
(* main: parseArguments, doCount, formatOutput, and the catch clause that  *)
(* prints what() of any exception.  The command line is argv without the   *)
(* program name, which parseArguments skips: options and names of files.   *)
(***************************************************************************)
Options == {[option |-> text] : text \in {"-l", "-w", "-c", "-m", "-x"}}

\* argView.starts_with("-")
IsOption(arg) == "option" \in DOMAIN arg

CommandLines == UNION {[1..n -> Files \cup Options] : n \in 0..MaxArgs}

InitMain ==
    /\ variant = "cpp"
    /\ alphabet = FileBytes
    /\ inputs = <<>>
    /\ idx = 1
    /\ stdinEof = FALSE
    /\ counter = Counter
    /\ counters = <<>>
    /\ FreshChain
    /\ pulled = <<>>
    /\ history = <<>>
    /\ finalizeCalls = 0
    /\ finalized = <<>>
    /\ phase = "parsing"
    /\ argv \in CommandLines
    /\ m_format_options = {}
    /\ output = <<>>
    /\ commandLine = argv
    /\ exit_code = <<>>
    /\ returned = <<>>
    /\ chain = BuiltChain

parsingFrame ==
    <<variant, alphabet, idx, stdinEof, counter, counters, m_byte, m_inWord,
      m_buffer, mbrtowcVars, pulled, history, finalizeCalls, finalized,
      commandLine, returned, chain>>

\* The option processOption adds for an argument it knows.
OptionOf(text) ==
    CASE text = "-l" -> "FORMAT_LINES"
      [] text = "-w" -> "FORMAT_WORDS"
      [] text = "-c" -> "FORMAT_BYTES"
      [] text = "-m" -> "FORMAT_MULTIBYTE"

\* processOption for -l, -w, -c, -m: addFormattingOptions.
ProcessOption ==
    /\ phase = "parsing"
    /\ argv # <<>>
    /\ IsOption(Head(argv))
    /\ Head(argv).option \in {"-l", "-w", "-c", "-m"}
    /\ m_format_options' = m_format_options \cup {OptionOf(Head(argv).option)}
    /\ argv' = Tail(argv)
    /\ UNCHANGED <<parsingFrame, inputs, phase, output, exit_code>>

\* processOption for anything else: InvalidArgumentException, which leaves
\* parseArguments; main's catch clause prints what() and main returns 0.
ProcessOptionThrows ==
    /\ phase = "parsing"
    /\ argv # <<>>
    /\ IsOption(Head(argv))
    /\ Head(argv).option \notin {"-l", "-w", "-c", "-m"}
    /\ output' = <<[kind |-> "what", text |-> "Invalid argument"]>>
    /\ phase' = "exited"
    /\ exit_code' = <<0>>
    /\ UNCHANGED <<parsingFrame, inputs, argv, m_format_options>>

\* addInputFile, try branch: the stream is made, the entry is healthy.
\* `named` is history: the file the entry was made for.
AddInputFile ==
    /\ phase = "parsing"
    /\ argv # <<>>
    /\ ~IsOption(Head(argv))
    /\ LET made == createInputStream(Head(argv))
       IN /\ made.thrown = "none"
          /\ inputs' = Append(inputs,
                 [mIsHealthy |-> TRUE, mErrorMessage |-> "",
                  isStdin |-> FALSE, mInputStream |-> made.stream,
                  named |-> <<Head(argv)>>])
    /\ argv' = Tail(argv)
    /\ UNCHANGED <<parsingFrame, phase, m_format_options, output, exit_code>>

\* addInputFile, catch branch: FileOperationException; the entry is
\* unhealthy and holds a standard-input stream.
AddInputFileCatch ==
    /\ phase = "parsing"
    /\ argv # <<>>
    /\ ~IsOption(Head(argv))
    /\ LET made == createInputStream(Head(argv))
       IN /\ made.thrown = "FileOperationException"
          /\ inputs' = Append(inputs,
                 [mIsHealthy |-> FALSE, mErrorMessage |-> made.what,
                  isStdin |-> TRUE, mInputStream |-> StandardInputStream,
                  named |-> <<Head(argv)>>])
    /\ argv' = Tail(argv)
    /\ UNCHANGED <<parsingFrame, phase, m_format_options, output, exit_code>>

\* Any other exception leaves addInputFile and parseArguments; main's catch
\* clause prints what() and main returns 0.
AddInputFileThrows ==
    /\ phase = "parsing"
    /\ argv # <<>>
    /\ ~IsOption(Head(argv))
    /\ LET made == createInputStream(Head(argv))
       IN /\ made.thrown \notin {"none", "FileOperationException"}
          /\ output' = <<[kind |-> "what", text |-> made.what]>>
    /\ phase' = "exited"
    /\ exit_code' = <<0>>
    /\ UNCHANGED <<parsingFrame, inputs, argv, m_format_options>>

\* Mutant: the standard input is added whatever was named.
addStdin_always(objects) ==
    Append(objects,
           [mIsHealthy |-> TRUE, mErrorMessage |-> "", isStdin |-> TRUE,
            mInputStream |-> StandardInputStream, named |-> <<>>])

\* Arguments::addStdin
addStdin(objects) ==
    IF objects = <<>>
    THEN <<[mIsHealthy |-> TRUE, mErrorMessage |-> "", isStdin |-> TRUE,
            mInputStream |-> StandardInputStream, named |-> <<>>]>>
    ELSE objects

\* Mutant: the default options are added to the ones asked for.
normalizeFormattingOptions_always(options) ==
    options \cup {"FORMAT_LINES", "FORMAT_WORDS", "FORMAT_BYTES"}

\* OutputFormatter::normalizeFormattingOptions
normalizeFormattingOptions(options) ==
    IF options = {}
    THEN {"FORMAT_LINES", "FORMAT_WORDS", "FORMAT_BYTES"}
    ELSE options

\* The arguments are used up: addStdin, normalizeFormattingOptions, and
\* doCount starts.
ParseEnd ==
    /\ phase = "parsing"
    /\ argv = <<>>
    /\ inputs' = addStdin(inputs)
    /\ m_format_options' = normalizeFormattingOptions(m_format_options)
    /\ phase' = "running"
    /\ UNCHANGED <<parsingFrame, argv, output, exit_code>>

\* doCount, buildCounterStateMachineChain: the constructor of the
\* MultibyteStateMachine throws when the locale cannot be made (generate("")
\* of boost.locale; newlocale in the mbrtowc chains, whose message is used
\* here); the exception leaves doCount, main's catch clause prints what()
\* and main returns 0.  Whether the locale can be made is the environment's
\* choice.
BuildChainThrows ==
    /\ phase = "running"
    /\ idx = 1
    /\ pulled = <<>>
    /\ output' = <<[kind |-> "what", text |-> "Failed to create UTF-8 locale"]>>
    /\ phase' = "exited"
    /\ exit_code' = <<0>>
    /\ UNCHANGED <<parsingFrame, inputs, argv, m_format_options>>

\* formatOutput: std::cout << formatFile(counters, inputs) << '\n'; every
\* line of formatFile ends with a newline, so an empty line follows them.
\* Then main returns 0.
FormatOutput ==
    /\ phase = "done"
    /\ output' = formatFile(counters, inputs, m_format_options)
                     \o <<[kind |-> "empty"]>>
    /\ phase' = "printed"
    /\ exit_code' = <<0>>
    /\ UNCHANGED <<parsingFrame, inputs, argv, m_format_options>>

NextMain ==
    \/ ProcessOption
    \/ ProcessOptionThrows
    \/ AddInputFile
    \/ AddInputFileCatch
    \/ AddInputFileThrows
    \/ ParseEnd
    \/ BuildChainThrows
    \/ \E byte \in alphabet : LoopIteration(byte)
    \/ \E byte \in alphabet : LoopBreakUnhealthy(byte)
    \/ LoopEndOfData
    \/ FormatOutput

SpecMain == InitMain /\ [][NextMain]_vars

(***************************************************************************)
(* formatOutput on the records of larger inputs.  doCount has returned;    *)
(* the bytes it pulled are not kept, each record is one that a pass over   *)
(* some input of that many bytes stores: a line takes a line feed, a word  *)
(* a byte that is no white space, two words a white space between them;    *)
(* multibyte is 0 until the first flush at MAX_BUFFER_SIZE bytes, and      *)
(* after it is the number of bytes for letters and white space, or 0 for   *)
(* a pass whose first byte starts no character.                            *)
(***************************************************************************)
\* Counts of one and two digits and the first count a flush can give.
Counts == {0, 1, 9, 10, MAX_BUFFER_SIZE}

CountRecords ==
    {record \in [bytes : Counts, words : Counts, lines : Counts,
                 multibyte : Counts] :
        /\ record.lines + record.words <= record.bytes
        /\ 2 * record.words - 1 <= record.bytes
        /\ record.multibyte \in {0, record.bytes}
        /\ record.bytes < MAX_BUFFER_SIZE => record.multibyte = 0
        /\ (record.bytes >= MAX_BUFFER_SIZE /\ record.multibyte = 0)
               => record.words >= 1}

\* The entry addInputFile makes for a readable file of that many bytes.
InputOfSize(size) ==
    [mIsHealthy |-> TRUE, mErrorMessage |-> "", isStdin |-> FALSE,
     mInputStream |->
         createInputStream([name |-> "file", exists |-> TRUE,
                            readable |-> TRUE, mappable |-> size > 0,
                            size |-> size]).stream,
     named |-> <<[name |-> "file", exists |-> TRUE, readable |-> TRUE,
                  mappable |-> size > 0, size |-> size]>>]

InitFormat ==
    /\ variant = "cpp"
    /\ alphabet = FileBytes
    /\ \E n \in 1..MaxInputs :
          /\ counters \in [1..n -> CountRecords]
          /\ inputs = [i \in 1..n |-> InputOfSize(counters[i].bytes)]
          /\ idx = n + 1
    /\ stdinEof = FALSE
    /\ counter = Counter
    /\ FreshChain
    /\ pulled = <<>>
    /\ history = <<>>
    /\ finalizeCalls = 0
    /\ finalized = <<>>
    /\ phase = "done"
    /\ argv = <<>>
    /\ m_format_options \in
           {{"FORMAT_LINES", "FORMAT_WORDS", "FORMAT_BYTES"},
            {"FORMAT_LINES", "FORMAT_WORDS", "FORMAT_MULTIBYTE",
             "FORMAT_BYTES"}}
    /\ output = <<>>
    /\ commandLine = <<>>
    /\ exit_code = <<>>
    /\ returned = <<>>
    /\ chain = BuiltChain

NextFormat == FormatOutput

SpecFormat == InitFormat /\ [][NextFormat]_vars

(***************************************************************************)
(* The mbrtowc variants of the chain.                                      *)
(*                                                                         *)
(* mbrtowc_l(&wideChar, m_buffer.data(), m_buffer.size(), &m_state, loc)   *)
(* in a UTF-8 locale: from the conversion state ps, examine at most        *)
(* Len(s) bytes of s to complete the next character.  The result is        *)
(* INVALID (size_t)-1, INCOMPLETE (size_t)-2, 0 for the NUL character, or  *)
(* the number of bytes that completed the character; on INCOMPLETE the     *)
(* state has absorbed the bytes examined.                                  *)
(***************************************************************************)
INVALID_MB_CHAR_RESULT == -1
INCOMPLETE_MB_CHAR_RESULT == -2

RECURSIVE Accumulate(_, _)
\* wch <<= 6; wch |= byte & 0x3f, for each continuation byte examined.
Accumulate(wch, bytes) ==
    IF bytes = <<>> THEN wch
    ELSE Accumulate(wch * 64 + (Head(bytes) % 64), Tail(bytes))

mbrtowc_l(s, ps) ==
    LET n == Len(s)
        fresh == ps.want = 0
        ch == s[1]
        want == IF ~fresh THEN ps.want
                ELSE IF ch \in 192..223 THEN 2
                ELSE IF ch \in 224..239 THEN 3
                ELSE IF ch \in 240..247 THEN 4
                ELSE 0
        lbound == IF ~fresh THEN ps.lbound
                  ELSE IF want = 2 THEN 128
                  ELSE IF want = 3 THEN 2048
                  ELSE 65536
        first == IF fresh THEN 1 ELSE 0
        limit == IF want < n THEN want ELSE n
        i == IF limit > first THEN limit ELSE first
        examined == SubSeq(s, first + 1, limit)
        wch == Accumulate(IF fresh THEN ch % (2 ^ (8 - want - 1)) ELSE ps.ch,
                          examined)
        invalid == [result |-> INVALID_MB_CHAR_RESULT, state |-> ps]
    IN IF fresh /\ ch < 128
       THEN [result |-> IF ch # 0 THEN 1 ELSE 0, state |-> ps]
       ELSE IF fresh /\ want = 0 THEN invalid
       ELSE IF \E k \in 1..Len(examined) : ~IsContinuation(examined[k]) THEN invalid
       ELSE IF i < want
       THEN [result |-> INCOMPLETE_MB_CHAR_RESULT,
             state |-> [want |-> want - i, lbound |-> lbound, ch |-> wch]]
       ELSE IF wch < lbound \/ wch \in 55296..57343 \/ wch > 1114111 THEN invalid
       ELSE [result |-> want, state |-> InitialMbstate]

\* MultibyteStateMachine::updateState up to the end of the if/else chain:
\* the fields after the call, and whether the function returned early.
MbrtowcUpdateState(byte) ==
    LET buffer == Append(m_buffer, byte)
        r == mbrtowc_l(buffer, m_state)
    IN IF r.result = INVALID_MB_CHAR_RESULT
       THEN [m_buffer |-> <<>>, m_state |-> InitialMbstate, m_invalid |-> TRUE,
             m_charComplete |-> m_charComplete, m_charBytes |-> m_charBytes,
             returned |-> FALSE]
       ELSE IF r.result = INCOMPLETE_MB_CHAR_RESULT
       THEN [m_buffer |-> buffer, m_state |-> r.state, m_invalid |-> m_invalid,
             m_charComplete |-> m_charComplete, m_charBytes |-> m_charBytes,
             returned |-> TRUE]
       ELSE [m_buffer |-> SubSeq(buffer, r.result + 1, Len(buffer)),
             m_state |-> r.state, m_invalid |-> m_invalid,
             m_charComplete |-> TRUE, m_charBytes |-> r.result,
             returned |-> FALSE]

\* if (m_charComplete) { if (m_charBytes > 1) counter.multibyte++; ... }
MbrtowcCount(c, charComplete, charBytes) ==
    IF charComplete /\ charBytes > 1
    THEN [c EXCEPT !.multibyte = @ + 1]
    ELSE c

(***************************************************************************)
(* counter_state_machine.hpp, second guard block: updateCounter of each    *)
(* state machine ends with passToNext(m_byte, counter), which calls        *)
(* updateState and updateCounter of the next one.  The multibyte state     *)
(* machine calls the byte state machine only if the sequence is not        *)
(* invalid.                                                                *)
(***************************************************************************)
HppChainUpdate(byte) ==
    LET afterLine == LineStateMachine_updateCounter(counter, byte)
        afterWord == WordStateMachine_updateCounter(afterLine, byte, m_inWord)
        mb == MbrtowcUpdateState(byte)
        afterMultibyte == MbrtowcCount(afterWord.counter, mb.m_charComplete,
                                       mb.m_charBytes)
        callsNext == ~mb.m_invalid
    IN /\ m_byte' = [line |-> byte, word |-> byte,
                     byte |-> IF callsNext /\ mb.m_buffer # <<>>
                              THEN mb.m_buffer[1] ELSE m_byte.byte]
       /\ m_inWord' = afterWord.m_inWord
       /\ m_buffer' = mb.m_buffer
       /\ m_state' = mb.m_state
       /\ m_charBytes' = mb.m_charBytes
       /\ m_charComplete' = FALSE
       /\ m_invalid' = FALSE
       /\ counter' = IF callsNext
                     THEN ByteStateMachine_updateCounter(afterMultibyte)
                     ELSE afterMultibyte

(***************************************************************************)
(* The unnamed counter_state_machine.cpp (mbrtowc, passToNextState /       *)
(* passToNextCounter / passToNextReset): updateState on the head, then     *)
(* updateCounter on the head.  The multibyte state machine passes the      *)
(* first buffered byte on as state only when it has one, and always passes *)
(* the counter on.                                                         *)
(***************************************************************************)
MbrtowcChainUpdate(byte) ==
    LET mb == MbrtowcUpdateState(byte)
        passesState == ~mb.returned /\ ~mb.m_invalid /\ mb.m_buffer # <<>>
        afterLine == LineStateMachine_updateCounter(counter, byte)
        afterWord == WordStateMachine_updateCounter(afterLine, byte, m_inWord)
        afterMultibyte == MbrtowcCount(afterWord.counter, mb.m_charComplete,
                                       mb.m_charBytes)
    IN /\ m_byte' = [line |-> byte, word |-> byte,
                     byte |-> IF passesState THEN mb.m_buffer[1] ELSE m_byte.byte]
       /\ m_inWord' = afterWord.m_inWord
       /\ m_buffer' = mb.m_buffer
       /\ m_state' = mb.m_state
       /\ m_charBytes' = mb.m_charBytes
       /\ m_charComplete' = FALSE
       /\ m_invalid' = mb.m_invalid
       /\ counter' = ByteStateMachine_updateCounter(afterMultibyte)

\* reset() on the head of the mbrtowc chain.
MbrtowcChainReset ==
    /\ m_byte' = [line |-> 0, word |-> 0, byte |-> 0]
    /\ m_inWord' = FALSE
    /\ m_buffer' = <<>>
    /\ m_charComplete' = FALSE
    /\ m_charBytes' = 0
    /\ m_invalid' = FALSE
    /\ m_state' = InitialMbstate

(***************************************************************************)
(* One pass over each chain the source tree defines.                       *)
(***************************************************************************)
Variants == {"hpp", "part_000", "cpp"}

InitVariants ==
    /\ variant \in Variants
    /\ alphabet = VariantBytes
    /\ inputs = <<>>
    /\ idx = 1
    /\ stdinEof = FALSE
    /\ counter = Counter
    /\ counters = <<>>
    /\ FreshChain
    /\ AfterParse
    /\ pulled = <<>>
    /\ history = <<>>
    /\ finalizeCalls = 0
    /\ finalized = <<>>
    /\ phase = "feeding"

\* A byte is pulled and goes through the chain.
VariantFeed(byte) ==
    /\ phase = "feeding"
    /\ Len(pulled) < MaxLen
    /\ CASE variant = "hpp" -> HppChainUpdate(byte)
         [] variant = "part_000" -> MbrtowcChainUpdate(byte)
         [] variant = "cpp" -> ChainUpdate(byte)
    /\ pulled' = Append(pulled, byte)
    /\ UNCHANGED <<mainVars, variant, alphabet, inputs, idx, stdinEof, counters, history,
                   finalizeCalls, finalized, phase>>

\* End of data: the record is kept; the chains that have reset() are reset.
VariantEnd ==
    /\ phase = "feeding"
    /\ CASE variant = "hpp" ->
              UNCHANGED <<m_byte, m_inWord, m_buffer, mbrtowcVars>>
         [] variant = "part_000" -> MbrtowcChainReset
         [] variant = "cpp" -> ChainReset
    /\ counters' = Append(counters, counter)
    /\ history' = Append(history, pulled)
    /\ finalized' = Append(finalized, finalizeCalls)
    /\ phase' = "done"
    /\ UNCHANGED <<mainVars, variant, alphabet, inputs, idx, stdinEof, counter, pulled,
                   finalizeCalls>>

NextVariants ==
    \/ \E byte \in alphabet : VariantFeed(byte)
    \/ VariantEnd

SpecVariants == InitVariants /\ [][NextVariants]_vars

(***************************************************************************)
(* Reference notions the properties are stated with.                       *)
(***************************************************************************)
Range(seq) == {seq[k] : k \in 1..Len(seq)}

CountOf(seq, byte) == Cardinality({k \in 1..Len(seq) : seq[k] = byte})

\* White space as the C locale defines it: space, \t, \n, \v, \f, \r.
IsWhite(b) == b = 32 \/ b \in 9..13

\* Maximal runs of non-white bytes: positions where such a run starts.
WordRuns(seq) ==
    Cardinality({k \in 1..Len(seq) :
                    ~IsWhite(seq[k]) /\ (k = 1 \/ IsWhite(seq[k - 1]))})

\* 10xxxxxx
Is10(b) == b \in 128..191

\* Sequence length the high bits of a leading byte announce; 0 for a byte
\* that cannot start a sequence (10xxxxxx, 11111xxx).
Announced(b) ==
    IF b < 128 THEN 1
    ELSE IF b \in 192..223 THEN 2
    ELSE IF b \in 224..239 THEN 3
    ELSE IF b \in 240..247 THEN 4
    ELSE 0

\* seq starts with a leading byte followed by the continuation bytes it
\* announces.
StartsWithSequence(seq) ==
    /\ seq # <<>>
    /\ Announced(seq[1]) \in 1..Len(seq)
    /\ \A k \in 2..Announced(seq[1]) : Is10(seq[k])

RECURSIVE StructurallyValid(_)
StructurallyValid(seq) ==
    \/ seq = <<>>
    \/ /\ StartsWithSequence(seq)
       /\ StructurallyValid(SubSeq(seq, Announced(seq[1]) + 1, Len(seq)))

\* The code point the sequence at the head of seq encodes.
RECURSIVE PayloadOf(_, _)
PayloadOf(value, continuation) ==
    IF continuation = <<>> THEN value
    ELSE PayloadOf(value * 64 + (Head(continuation) - 128), Tail(continuation))

CodePoint(seq) ==
    LET n == Announced(seq[1])
        lead == IF n = 1 THEN seq[1]
                ELSE IF n = 2 THEN seq[1] - 192
                ELSE IF n = 3 THEN seq[1] - 224
                ELSE seq[1] - 240
    IN PayloadOf(lead, SubSeq(seq, 2, n))

\* A Unicode scalar value in its shortest form.
ShortestScalar(seq) ==
    LET n == Announced(seq[1])
        cp == CodePoint(seq)
    IN /\ cp <= 1114111
       /\ cp \notin 55296..57343
       /\ n = 2 => cp >= 128
       /\ n = 3 => cp >= 2048
       /\ n = 4 => cp >= 65536

RECURSIVE WellFormedUtf8(_)
WellFormedUtf8(seq) ==
    \/ seq = <<>>
    \/ /\ StartsWithSequence(seq)
       /\ ShortestScalar(seq)
       /\ WellFormedUtf8(SubSeq(seq, Announced(seq[1]) + 1, Len(seq)))

\* Sequences of a structurally valid input: one per byte that is not 10xxxxxx.
NumSequences(seq) == Cardinality({k \in 1..Len(seq) : ~Is10(seq[k])})

\* A leading byte followed by fewer continuation bytes than it announces.
Truncated(seq) ==
    /\ seq # <<>>
    /\ Announced(seq[1]) > Len(seq)
    /\ \A k \in 2..Len(seq) : Is10(seq[k])

Prefix(seq, n) == SubSeq(seq, 1, n)
Suffix(seq, n) == SubSeq(seq, n + 1, Len(seq))

\* Records stored for healthy inputs.
HealthyRecords == {i \in 1..Len(counters) : inputs[i].mIsHealthy}

(***************************************************************************)
(* Properties.                                                             *)
(***************************************************************************)

\* C1: the record doCount stores for a healthy input has bytes equal to
\* the number of bytes the input's stream delivered, whatever their values.
C1_BytesEqualLength ==
    \A i \in HealthyRecords : counters[i].bytes = Len(history[i])

\* A stored record for an input made of NUL, a stray continuation byte and
\* a byte that starts nothing.
C1_Witness ==
    \E i \in HealthyRecords :
        /\ Range(history[i]) = {0, 159, 248}
        /\ counters[i].bytes = 3

\* C2: at every step of a pass, in every chain the source defines, the byte
\* counter equals the number of bytes pulled so far.
C2_BytesEqualPulled ==
    counter.bytes = Len(pulled)

\* C3: the lines count equals the number of 0x0A bytes, during the pass and
\* in the stored record; carriage returns and an unterminated last line add
\* nothing.
C3_LinesEqualLineFeeds ==
    /\ counter.lines = CountOf(pulled, 10)
    /\ \A i \in HealthyRecords : counters[i].lines = CountOf(history[i], 10)

\* A stored record for CR LF followed by an unterminated line.
C3_Witness ==
    \E i \in HealthyRecords :
        /\ history[i] = <<13, 10, 65>>
        /\ counters[i].lines = 1

\* C4: the words count of every stored record equals the number of maximal
\* runs of bytes outside {0x20, 0x09, 0x0A, 0x0B, 0x0C, 0x0D}, for the first
\* input and for inputs processed after a reset.
C4_WordsEqualRuns ==
    \A i \in HealthyRecords : counters[i].words = WordRuns(history[i])

\* The first input ends inside a word and the second starts with a word at
\* its first byte, a byte that is white space only outside the C locale.
C4_Witness ==
    /\ Len(counters) = 2
    /\ HealthyRecords = {1, 2}
    /\ history[1] = <<33>>
    /\ history[2] = <<160, 11>>
    /\ counters[2].words = 1

\* C5: the record stored for a healthy input made of bytes below 0x80 only
\* has multibyte equal to bytes.
C5_AsciiMultibyteEqualsBytes ==
    \A i \in HealthyRecords :
        (\A k \in 1..Len(history[i]) : history[i][k] < 128)
            => counters[i].multibyte = counters[i].bytes

\* C6: finalize of the multibyte state machine is never run while bytes are
\* pulled, and has run exactly once for every record stored.
C6_FinalizeOncePerInput ==
    /\ phase = "running" => finalizeCalls = 0
    /\ \A i \in 1..Len(counters) : finalized[i] = 1

\* C7: after finalize, the multibyte count of a structurally
\* valid input (every leading byte followed by the continuation bytes it
\* announces) is its number of sequences.
C7_StructurallyValidCount ==
    (phase = "finalized" /\ StructurallyValid(pulled))
        => counter.multibyte = NumSequences(pulled)

\* C7 on well-formed input: after finalize, the multibyte count of a UTF-8
\* input (structurally valid, every sequence a Unicode scalar value in its
\* shortest form) is its number of sequences, one for each, whether 1, 2, 3
\* or 4 bytes long.
C7_WellFormedCount ==
    (phase = "finalized" /\ WellFormedUtf8(pulled))
        => counter.multibyte = NumSequences(pulled)

\* A 1-byte and a 4-byte sequence, counted as two after finalize.
C7_Witness ==
    /\ phase = "finalized"
    /\ pulled = <<65, 240, 159, 159, 159>>
    /\ counter.multibyte = 2

C9_InvalidLeadResync ==
    phase = "finalized" =>
        \A n \in 1..Len(pulled) :
            ( /\ WellFormedUtf8(Prefix(pulled, n - 1))
              /\ Announced(pulled[n]) = 0
              /\ WellFormedUtf8(Suffix(pulled, n)) )
                => counter.multibyte =
                       NumSequences(Prefix(pulled, n - 1)) + 1 +
                       NumSequences(Suffix(pulled, n))

\* C10: a byte without the 10xxxxxx pattern that arrives while continuation
\* bytes are expected ends the sequence in progress as one unit and is
\* itself the start of the sequences that follow, counted one each.
C10_InvalidContinuationResync ==
    phase = "finalized" =>
        \A n \in 0..Len(pulled) : \A m \in (n + 1)..(Len(pulled) - 1) :
            ( /\ WellFormedUtf8(Prefix(pulled, n))
              /\ Truncated(SubSeq(pulled, n + 1, m))
              /\ ~Is10(pulled[m + 1])
              /\ WellFormedUtf8(Suffix(pulled, m)) )
                => counter.multibyte =
                       NumSequences(Prefix(pulled, n)) + 1 +
                       NumSequences(Suffix(pulled, m))

C12_Idempotence ==
    \A i, j \in 1..Len(counters) :
        (history[i] = history[j] /\ finalized[i] = finalized[j])
            => counters[i] = counters[j]

\* The first pass ended inside a word with the leading byte of a 2-byte
\* sequence pending; both passes were finalized.
C12_Witness ==
    /\ Len(counters) = 2
    /\ history[1] = <<32, 65, 195>>
    /\ history[2] = <<32, 65, 195>>
    /\ finalized = <<1, 1>>
    /\ counters[2] = [bytes |-> 3, words |-> 1, lines |-> 0, multibyte |-> 3]

\* The split offset n of whole does not fall inside a sequence: the byte
\* after it, if any, is not a continuation byte.
OnSequenceBoundary(whole, n) ==
    n = 0 \/ n = Len(whole) \/ ~Is10(whole[n + 1])

\* The split offset n of whole falls between two bytes of one word.
InsideWord(whole, n) ==
    /\ n \in 1..(Len(whole) - 1)
    /\ ~IsWhite(whole[n])
    /\ ~IsWhite(whole[n + 1])

\* Two pieces and their whole have been processed and finalized alike.
SplitProcessed ==
    /\ Len(inputs) = 3
    /\ Len(counters) = 3
    /\ finalized[1] = finalized[3]
    /\ finalized[2] = finalized[3]

RECURSIVE PassOver(_, _)
PassOver(engine, bytes) ==
    IF bytes = <<>> THEN engine
    ELSE LET byte == Head(bytes)
             afterLine == LineStateMachine_updateCounter(engine.counter, byte)
             afterWord == WordStateMachine_updateCounter(
                              afterLine, byte, engine.m_inWord)
             afterMultibyte == MultibyteStateMachine_updateCounter(
                                   afterWord.counter,
                                   Append(engine.m_buffer, byte))
         IN PassOver([counter |-> ByteStateMachine_updateCounter(
                                      afterMultibyte.counter),
                      m_inWord |-> afterWord.m_inWord,
                      m_buffer |-> afterMultibyte.m_buffer],
                     Tail(bytes))

RecordOfFirstInput(bytes) ==
    PassOver([counter |-> Counter, m_inWord |-> FALSE, m_buffer |-> <<>>],
             bytes).counter

\* C14: the record stored for a healthy input is the one the same bytes
\* give as first input of a run, whatever inputs came before it; the record
\* of an unhealthy input is all zero.
C14_RecordDependsOnOwnBytes ==
    \A i \in 1..Len(counters) :
        counters[i] = IF inputs[i].mIsHealthy
                      THEN RecordOfFirstInput(history[i])
                      ELSE Counter

\* The first input ended inside a word, on the leading byte of a 2-byte
\* sequence; the word at the first byte of the second input is counted.
C14_Witness ==
    /\ Len(counters) = 2
    /\ HealthyRecords = {1, 2}
    /\ history[1] = <<195>>
    /\ history[2] = <<65, 10>>
    /\ counters[2] = [bytes |-> 2, words |-> 1, lines |-> 1, multibyte |-> 0]

\* C19: a named file gets the buffered stream when its size is below
\* 100 MiB and the mapped stream when it is 100 MiB or more; with no file
\* named, the input is the standard-input stream.
C19_StrategyBySize ==
    \A i \in 1..Len(inputs) :
        LET stream == inputs[i].mInputStream
        IN IF inputs[i].named = <<>>
           THEN stream.kind = "stdin"
           ELSE inputs[i].mIsHealthy =>
                    stream.kind =
                        IF inputs[i].named[1].size < 100 * 1024 * 1024
                        THEN "buffered" ELSE "mapped"

\* A file one byte below 100 MiB has the buffered stream and a file of
\* exactly 100 MiB has the mapped stream.
C19_Witness ==
    /\ Len(inputs) = 2
    /\ inputs[1].named[1].size = 100 * 1024 * 1024 - 1
    /\ inputs[1].mInputStream.kind = "buffered"
    /\ inputs[2].named[1].size = 100 * 1024 * 1024
    /\ inputs[2].mInputStream.kind = "mapped"

\* C15: a named file that cannot be opened (a missing path, an unreadable
\* file, a file of 100 MiB or more that cannot be mapped) becomes an input
\* with an unhealthy status and a message, and the run is not aborted.
C15_OpenFailureIsUnhealthy ==
    /\ ~(phase = "exited" /\ output[1].text = "Failed to memory-map file")
    /\ \A i \in 1..Len(inputs) :
           LET CannotOpen(file) ==
                   \/ ~file.exists
                   \/ ~file.readable
                   \/ file.size >= 100 * 1024 * 1024 /\ ~file.mappable
           IN inputs[i].named # <<>> /\ CannotOpen(inputs[i].named[1])
                  => ~inputs[i].mIsHealthy /\ inputs[i].mErrorMessage # ""

\* C16: the output has one line per input, in input order: the count line
\* of each healthy input and the error message of each unhealthy one.
C16_OneLinePerInput ==
    phase = "printed" =>
        LET OfAnInput(line) == line.kind \in {"counts", "error"}
            lines == SelectSeq(output, OfAnInput)
        IN /\ Len(lines) = Len(inputs)
           /\ \A i \in 1..Len(inputs) :
                  IF inputs[i].mIsHealthy
                  THEN lines[i].kind = "counts"
                  ELSE /\ lines[i].kind = "error"
                       /\ lines[i].text = inputs[i].mErrorMessage

\* C17: the total is the field-wise sum of the records, and the total row
\* is in the output exactly when there is more than one input.
C17_TotalRow ==
    phase = "printed" =>
        LET IsTotal(line) == line.kind = "total"
            totals == SelectSeq(output, IsTotal)
            Field(option) ==
                SumOf([i \in 1..Len(counters) |-> handle(option, counters[i])])
        IN /\ Len(totals) = IF Len(inputs) > 1 THEN 1 ELSE 0
           /\ \A t \in 1..Len(totals) :
                  \A k \in 1..Len(totals[t].columns) :
                      totals[t].columns[k].number =
                          Field(totals[t].columns[k].option)

\* C18: doCount returns one record per input, in input order: after i
\* inputs there are i records, the record at position i is the one of
\* input i (as many bytes as input i delivered to the chain, none for an
\* unhealthy input), and at the end there are as many records as inputs.
C18_OneRecordPerInput ==
    /\ Len(counters) = idx - 1
    /\ phase = "done" => Len(counters) = Len(inputs)
    /\ \A i \in 1..Len(counters) :
           counters[i].bytes =
               IF inputs[i].mIsHealthy THEN Len(history[i]) ELSE 0

\* A finished run over an unhealthy input followed by a healthy one that
\* delivered bytes: two records, the second one with the bytes.
C18_Witness ==
    /\ phase = "done"
    /\ Len(inputs) = 2
    /\ ~inputs[1].mIsHealthy
    /\ inputs[2].mIsHealthy
    /\ Len(counters) = 2
    /\ counters[1] = Counter
    /\ counters[2].bytes > 0

\* The run reads one content through the buffered stream and then through
\* the mapped stream.
BufferedThenMapped ==
    /\ Len(inputs) = 2
    /\ inputs[1].mInputStream.kind = "buffered"
    /\ inputs[2].mInputStream.kind = "mapped"
    /\ inputs[1].mInputStream.content = inputs[2].mInputStream.content

\* C20: for the same content the buffered and the mapped stream deliver
\* the same sequence of bytes (the content itself, up to end of data), so
\* the records of the two passes are the same.
C20_SameBytesSameRecord ==
    BufferedThenMapped =>
        /\ idx <= Len(inputs) =>
               pulled = SubSeq(inputs[idx].mInputStream.content,
                               1, Len(pulled))
        /\ \A i \in 1..Len(history) :
               history[i] = inputs[i].mInputStream.content
        /\ (Len(counters) = 2 /\ finalized[1] = finalized[2])
               => counters[1] = counters[2]

\* Both streams have delivered a 2-byte sequence and a line feed.
C20_Witness ==
    /\ BufferedThenMapped
    /\ Len(counters) = 2
    /\ history = <<<<195, 159, 10>>, <<195, 159, 10>>>>
    /\ finalized = <<1, 1>>
    /\ counters[1] = counters[2]
    /\ counters[2].bytes = 3
    /\ counters[2].lines = 1
    /\ counters[2].multibyte > 0

\* C22: at most one input holds an open file or mapping at any time.
C22_OneResourceAtATime ==
    LET Held(i) == /\ inputs[i].mInputStream.kind \in {"buffered", "mapped"}
                   /\ inputs[i].mInputStream.is_open
    IN Cardinality({i \in 1..Len(inputs) : Held(i)}) <= 1

\* C23: when the locale of the multibyte decoder cannot be made, the run
\* ends with one error message, no count line, no byte pulled and an
\* outcome that is not zero.
C23_LocaleFailureIsFatal ==
    (phase = "exited" /\ output[1].text = "Failed to create UTF-8 locale")
        => /\ Len(output) = 1
           /\ pulled = <<>>
           /\ history = <<>>
           /\ counters = <<>>
           /\ exit_code # <<>>
           /\ exit_code[1] # 0

\* The options the command line asks for.
Requested ==
    {OptionOf(commandLine[i].option) :
        i \in {j \in 1..Len(commandLine) :
                  /\ IsOption(commandLine[j])
                  /\ commandLine[j].option \in {"-l", "-w", "-c", "-m"}}}

\* The options a line of the output has a column for.
Rendered(line) == {line.columns[k].option : k \in 1..Len(line.columns)}

\* C24: the count lines and the total row have a column for lines, words
\* and bytes when no option is given, and for exactly the options given
\* otherwise.
C24_RenderedMetricSet ==
    phase = "printed" =>
        \A k \in 1..Len(output) :
            output[k].kind \in {"counts", "total"} =>
                Rendered(output[k]) =
                    IF Requested = {}
                    THEN {"FORMAT_LINES", "FORMAT_WORDS", "FORMAT_BYTES"}
                    ELSE Requested

\* -m and -l before a file: its count line has the two columns, lines
\* first.
C24_Witness ==
    /\ phase = "printed"
    /\ Len(commandLine) = 3
    /\ IsOption(commandLine[1]) /\ commandLine[1].option = "-m"
    /\ IsOption(commandLine[2]) /\ commandLine[2].option = "-l"
    /\ output[1].kind = "counts"
    /\ Len(output[1].columns) = 2
    /\ output[1].columns[1].option = "FORMAT_LINES"
    /\ output[1].columns[2].option = "FORMAT_MULTIBYTE"

\* The arguments of the command line that are not options.
FileArguments ==
    SelectSeq(commandLine, LAMBDA arg : ~IsOption(arg))

\* C25: after parseArguments the inputs are the standard input alone when
\* no argument names a file, and otherwise one entry for each file
\* argument, in order, and no entry for the standard input, wherever the
\* options stand.
C25_StdinWhenNoFile ==
    phase \in {"running", "done", "printed"} =>
        IF FileArguments = <<>>
        THEN /\ Len(inputs) = 1
             /\ inputs[1].named = <<>>
             /\ inputs[1].mIsHealthy
             /\ inputs[1].mInputStream.kind = "stdin"
        ELSE /\ Len(inputs) = Len(FileArguments)
             /\ \A i \in 1..Len(inputs) :
                    inputs[i].named = <<FileArguments[i]>>

\* A file named between two options: one entry, for the file.
C25_Witness ==
    /\ phase = "running"
    /\ Len(commandLine) = 3
    /\ IsOption(commandLine[1])
    /\ ~IsOption(commandLine[2])
    /\ IsOption(commandLine[3])
    /\ Len(inputs) = 1
    /\ inputs[1].named = <<commandLine[2]>>

\* C26: a count line ends with the name of its input exactly when the
\* input is not the standard input.
C26_NameUnlessStdin ==
    phase = "printed" =>
        \A k \in 1..Len(output) :
            output[k].kind = "counts" =>
                output[k].name =
                    IF inputs[k].named = <<>>
                    THEN <<>>
                    ELSE <<inputs[k].named[1].name>>

\* Two files: each count line ends with the name of the file.
C26_Witness ==
    /\ phase = "printed"
    /\ Len(inputs) = 2
    /\ output[1].kind = "counts" /\ output[1].name = <<"file">>
    /\ output[2].kind = "counts" /\ output[2].name = <<"file">>
    /\ output[3].kind = "total"

\* The standard input alone: its count line has no name.
C26_WitnessStdin ==
    /\ phase = "printed"
    /\ inputs[1].named = <<>>
    /\ output[1].kind = "counts"
    /\ output[1].name = <<>>

\* C21: reset() on a buffered or mapped stream returns true wherever the
\* cursor stands, also after end of data; reset() on the standard input
\* returns false.
C21_ResetResult ==
    (returned # <<>> /\ returned[1].call = "reset") =>
        returned[1].value = (inputs[1].mInputStream.kind # "stdin")

\* C30: the cursor of the mapped stream stays between 0 and the size of
\* the mapping; nextByte with the cursor below the size returns the byte
\* at the cursor and moves it by one, nextByte with the cursor at the size
\* returns end of data and leaves it, reset sets it to 0.
C30_MappedCursor ==
    /\ [](inputs[1].mInputStream.kind = "mapped" =>
             /\ inputs[1].mInputStream.m_pos >= 0
             /\ inputs[1].mInputStream.m_pos
                    <= Len(inputs[1].mInputStream.content))
    /\ [][inputs[1].mInputStream.kind = "mapped" =>
             LET before == inputs[1].mInputStream
                 after == inputs'[1].mInputStream
             IN IF returned'[1].call = "reset"
                THEN after.m_pos = 0
                ELSE IF before.m_pos < Len(before.content)
                THEN /\ returned'[1].value =
                            optional(before.content[before.m_pos + 1])
                     /\ after.m_pos = before.m_pos + 1
                ELSE /\ returned'[1].value = nullopt
                     /\ after.m_pos = before.m_pos]_vars

\* The mapped stream has returned end of data with its cursor at the size
\* of the mapping, after its three bytes.
C30_Witness ==
    /\ phase = "harness"
    /\ inputs[1].mInputStream.kind = "mapped"
    /\ inputs[1].mInputStream.m_pos = 3
    /\ pulled = <<195, 159, 10>>
    /\ returned = <<[call |-> "nextByte", value |-> nullopt]>>

\* C27: a record starts with its four fields at zero, and no updateCounter
\* or finalize call makes a field smaller; the record that follows a reset
\* is a new one, all zero.
C27_NeverDecreases ==
    /\ counter = [bytes |-> 0, words |-> 0, lines |-> 0, multibyte |-> 0]
    /\ [][IF Len(counters') > Len(counters)
          THEN counter' = [bytes |-> 0, words |-> 0, lines |-> 0,
                           multibyte |-> 0]
          ELSE /\ counter'.bytes >= counter.bytes
               /\ counter'.lines >= counter.lines
               /\ counter'.words >= counter.words
               /\ counter'.multibyte >= counter.multibyte]_vars

\* A second record, with a finalize call that counted between two bytes of
\* it.
C27_Witness ==
    /\ Len(counters) = 1
    /\ finalizeCalls = 1
    /\ counter.bytes = 2
    /\ counter.multibyte = 1

\* C28: after every updateCounter call the multibyte state machine holds
\* fewer pending bytes than the flush threshold plus one partial sequence.
C28_BufferBounded ==
    Len(m_buffer) < MAX_BUFFER_SIZE + 4

\* C29: whatever the order the four state machines are linked in, the
\* record is the one of the order Lines -> Words -> Multibyte -> Bytes,
\* before and after finalize, and every state machine has taken each byte
\* once.
C29_OrderIndependent ==
    LET built == PassOver([counter |-> Counter, m_inWord |-> FALSE,
                           m_buffer |-> <<>>], pulled)
    IN /\ phase = "feeding" =>
              /\ counter = built.counter
              /\ m_inWord = built.m_inWord
              /\ m_buffer = built.m_buffer
       /\ phase \in {"finalized", "done"} =>
              counter = MultibyteStateMachine_finalize(
                            built.counter, built.m_buffer).counter
       /\ (phase = "feeding" /\ pulled # <<>>) =>
              /\ m_byte = [line |-> pulled[Len(pulled)],
                           word |-> pulled[Len(pulled)],
                           byte |-> pulled[Len(pulled)]]
              /\ counter.bytes = Len(pulled)

\* The chain linked in the opposite order, after two words, a line feed
\* and a 2-byte sequence cut short (a third word), finalized.
C29_Witness ==
    /\ chain[1] = "Bytes"
    /\ chain[2] = "Multibyte"
    /\ chain[3] = "Words"
    /\ chain[4] = "Lines"
    /\ phase = "finalized"
    /\ pulled = <<65, 32, 65, 10, 195>>
    /\ counter.words = 3
    /\ counter.lines = 1
    /\ counter.bytes = 5
    /\ counter.multibyte > 0

\* C31: on a file stream, the bytes nextByte returns after a successful
\* reset are the bytes of the file from the first one on, whatever was
\* read before the reset (nothing, a part, or all of it and end of data):
\* the reset leaves the stream as a newly opened one, the bytes of a pass
\* are a prefix of the file, and end of data comes after all of them.
C31_RoundTrip ==
    /\ [](inputs[1].mInputStream.kind # "stdin" /\ history # <<>> =>
             LET stream == inputs[1].mInputStream
             IN /\ Len(pulled) <= Len(stream.content)
                /\ pulled = SubSeq(stream.content, 1, Len(pulled))
                /\ Len(history[1]) <= Len(stream.content)
                /\ history[1] = SubSeq(stream.content, 1, Len(history[1]))
                /\ (returned[1].call = "nextByte"
                        /\ ~returned[1].value.has_value)
                       => pulled = stream.content)
    /\ [][(returned'[1].call = "reset" /\ returned'[1].value) =>
             LET before == inputs[1].mInputStream
             IN inputs'[1].mInputStream =
                    IF before.kind = "buffered"
                    THEN BufferedFileInputStream(before.content, TRUE)
                    ELSE MemoryMappedFileInputStream(before.content)]_vars

\* A buffered stream was read to its end, reset, and read to its end
\* again: both passes gave the three bytes of the file.
C31_Witness ==
    /\ phase = "harness"
    /\ inputs[1].mInputStream.kind = "buffered"
    /\ inputs[1].mInputStream.content = <<195, 159, 10>>
    /\ history = <<(<<195, 159, 10>>)>>
    /\ pulled = <<195, 159, 10>>
    /\ returned = <<[call |-> "nextByte", value |-> nullopt]>>

\* The place of an option in the declaration of OutputFormatOptions.
Rank(option) ==
    CASE option = "FORMAT_LINES" -> 1
      [] option = "FORMAT_WORDS" -> 2
      [] option = "FORMAT_MULTIBYTE" -> 3
      [] option = "FORMAT_BYTES" -> 4

C37_MultibyteAtMostBytes ==
    /\ counter.multibyte + Len(m_buffer) <= counter.bytes
    /\ phase = "finalized" =>
           /\ m_buffer = <<>>
           /\ counter.multibyte <= counter.bytes

\* Letters up to the threshold, then E0 A0 80 E0: the flush at the
\* threshold counted the letters, finalize counted the sequence and the
\* leading byte left alone.
C37_Witness ==
    /\ phase = "finalized"
    /\ pulled[1] = 65
    /\ SubSeq(pulled, MAX_BUFFER_SIZE, Len(pulled)) = <<224, 160, 128, 224>>
    /\ counter.bytes = MAX_BUFFER_SIZE + 3
    /\ counter.multibyte = MAX_BUFFER_SIZE + 1

\* The bytes fed after the letters of the filler.
FedAfterLetters == SelectSeq(pulled, LAMBDA b : b >= 128)

\* The count a single flush of the whole input gives.
CountWithoutThreshold ==
    MultibyteStateMachine_finalize(Counter, pulled).counter.multibyte

\* Whatever the bytes, the flush at the threshold changes nothing in the
\* count after finalize.
ThresholdIndependent ==
    phase = "finalized" => counter.multibyte = CountWithoutThreshold

\* A well-formed sequence that straddles the threshold is counted once.
WellFormedStraddleCountedOnce ==
    (phase = "finalized" /\ pulled[1] = 65
        /\ WellFormedUtf8(FedAfterLetters)) =>
            counter.multibyte = NumSequences(pulled)

\* C38: for structurally valid input that crosses the flush threshold,
\* the multibyte count after finalize is the number of sequences: the
\* sequence that straddles the threshold is counted once, not zero times
\* and not twice.
C38_StraddleCountedOnce ==
    (phase = "finalized" /\ pulled[1] = 65
        /\ StructurallyValid(FedAfterLetters)) =>
            counter.multibyte = NumSequences(pulled)

\* C33: every number of a count line and of the total row stands right
\* aligned in a field of digits(total bytes) + 2 characters: the number has
\* at most that many digits, and the padding 1 + (maxLen + 1) - length is
\* not negative, so the unsigned computation does not wrap.
C33_FieldWidth ==
    phase = "printed" =>
        \A k \in 1..Len(output) :
            output[k].kind \in {"counts", "total"} =>
                \A i \in 1..Len(output[k].columns) :
                    LET column == output[k].columns[i]
                        width == Digits(TotalOf(counters).bytes) + 2
                    IN /\ Digits(column.number) <= width
                       /\ column.spaces >= 0
                       /\ column.spaces + Digits(column.number) = width

\* Nine lines of nothing else and a larger input: the 9 stands after five
\* spaces, the total of the bytes, 4105, after two.
C33_Witness ==
    /\ phase = "printed"
    /\ Len(counters) = 2
    /\ counters[1].bytes = 9 /\ counters[1].lines = 9
    /\ counters[2].bytes = MAX_BUFFER_SIZE
    /\ output[1].columns[1].number = 9
    /\ output[1].columns[1].spaces = 5
    /\ output[3].kind = "total"
    /\ output[3].columns[Len(output[3].columns)].number = MAX_BUFFER_SIZE + 9
    /\ output[3].columns[Len(output[3].columns)].spaces = 2

\* C34: for an unhealthy input doCount pulls no byte from any stream, the
\* standard-input stream that stands in for the failed file included, and
\* stores a record of zeros.
C34_UnhealthyPullsNothing ==
    \A i \in 1..Len(counters) :
        ~inputs[i].mIsHealthy =>
            /\ history[i] = <<>>
            /\ counters[i] = Counter

\* C35: the loop that pulls the bytes of a healthy file ends at end of
\* data only, whatever the bytes are: the pass has taken every byte of the
\* file when the loop is left, a byte 0x00 and the bytes after it
\* included, and each of them has gone through the chain.
C35_LoopEndsAtEndOfData ==
    /\ phase = "drained" =>
           /\ pulled = inputs[idx].mInputStream.content
           /\ counter.bytes = Len(pulled)
    /\ \A i \in 1..Len(counters) :
           /\ history[i] = inputs[i].mInputStream.content
           /\ counters[i].bytes = Len(history[i])
           /\ counters[i].lines = CountOf(history[i], 10)

\* A file of a letter, a NUL and a line feed: three bytes, one line.
C35_Witness ==
    /\ Len(counters) >= 1
    /\ inputs[1].mInputStream.content = <<65, 0, 10>>
    /\ history[1] = <<65, 0, 10>>
    /\ counters[1].bytes = 3
    /\ counters[1].lines = 1
    /\ counters[1].words = 1

\* The last call was nextByte and it returned end of data.
EndOfDataReturned ==
    /\ returned # <<>>
    /\ returned[1].call = "nextByte"
    /\ ~returned[1].value.has_value

\* The stream is where nextByte returns end of data.
AtEnd ==
    LET stream == inputs[1].mInputStream
    IN CASE stream.kind = "buffered" -> stream.failbit
         [] stream.kind = "mapped" -> stream.m_pos >= Len(stream.content)
         [] stream.kind = "stdin" -> stdinEof

\* Once nextByte has returned end of data it returns end of data at every
\* call, until a reset that returns true.
StickyEndOfData ==
    /\ [](EndOfDataReturned => AtEnd)
    /\ [][AtEnd =>
             IF returned'[1].call = "reset"
             THEN returned'[1].value \/ AtEnd'
             ELSE ~returned'[1].value.has_value /\ AtEnd']_vars

\* A pass over a file that could be opened ends after as many bytes as
\* the file has.
PassTakesWholeOpenFile ==
    (/\ EndOfDataReturned
     /\ \/ inputs[1].mInputStream.kind = "mapped"
        \/ /\ inputs[1].mInputStream.kind = "buffered"
           /\ inputs[1].mInputStream.is_open) =>
        pulled = inputs[1].mInputStream.content

\* C36: on each stream, once nextByte has returned end of data every later
\* nextByte call returns end of data until a reset returns true, and on a
\* file stream end of data is returned after exactly as many bytes as the
\* file has.
C36_EndOfDataSticky ==
    /\ StickyEndOfData
    /\ []((EndOfDataReturned /\ inputs[1].mInputStream.kind # "stdin") =>
             Len(pulled) = Len(inputs[1].mInputStream.content))

====
